---- MODULE Spec2Model ----
(***************************************************************************)
(* state_variable: the Policy Registry (state_variable_meta.Metastate),    *)
(* its helpers (sv_util) and the Facade (state_variable.StateVariable).    *)
(*                                                                         *)
(* Python values are records [type, val]: type is the name of the runtime  *)
(* type, val the payload.  A str is a sequence of one-character strings,   *)
(* so that lower(), startswith() and indexing are computed.  A dict is a   *)
(* sequence of <<key, value>> pairs in insertion order.  Keys that name    *)
(* governance parameters, descriptor fields and state variables are TLA+   *)
(* strings.  An exception is a record [type, msg]; a call that raises      *)
(* keeps every assignment made before the raise.                           *)
(***************************************************************************)
EXTENDS Integers, Sequences, FiniteSets, TLC

VARIABLES
    meta,   \* the Metastate object: its attributes, state dict and defined_pkg
    sv,     \* the StateVariable instance attributes set by setattr (name -> value)
    call,   \* the last call made: [op, kwargs, out], out the alert lines it printed
    err,    \* the exception the last call raised, NoError when it returned
    tracker,  \* the IntervalTracker object: interval, variables, values, per_interval
    added   \* the (date, val) pairs given to IntervalTracker.add, in call order

vars == <<meta, sv, call, err, tracker, added>>

---------------------------------------------------------------------------
(* Python values *)

PyNone == [type |-> "NoneType", val |-> "None"]
PyBool(b) == [type |-> "bool", val |-> b]
PyStr(s) == [type |-> "str", val |-> s]
PyInt(i) == [type |-> "int", val |-> i]
PyFloat(lit) == [type |-> "float", val |-> lit]
PyType(name) == [type |-> "type", val |-> name]
PyList(seq) == [type |-> "list", val |-> seq]
PyDict(pairs) == [type |-> "dict", val |-> pairs]

\* type(x)
TypeOf(x) == PyType(x.type)

\* isinstance(x, types): bool is a subclass of int
IsInstance(x, types) ==
    \/ x.type \in types
    \/ x.type = "bool" /\ "int" \in types

\* x == y for the values the model holds (dicts compare without order)
PyEq(x, y) ==
    IF x.type # y.type THEN FALSE
    ELSE IF x.type = "dict"
         THEN {x.val[i] : i \in 1..Len(x.val)} = {y.val[i] : i \in 1..Len(y.val)}
         ELSE x.val = y.val

\* bool(x): truthiness
Truthy(x) ==
    CASE x.type = "bool" -> x.val
      [] x.type = "int" -> x.val # 0
      [] x.type = "NoneType" -> FALSE
      [] x.type \in {"str", "list", "dict"} -> Len(x.val) > 0
      [] x.type = "float" -> x.val \notin {"0.0", "-0.0"}
      [] OTHER -> TRUE

---------------------------------------------------------------------------
(* Exceptions and results *)

NoError == [type |-> "None", msg |-> ""]
StateVariableError(msg) == [type |-> "StateVariableError", msg |-> msg]
AttributeError(msg) == [type |-> "AttributeError", msg |-> msg]
IndexError(msg) == [type |-> "IndexError", msg |-> msg]
KeyError(msg) == [type |-> "KeyError", msg |-> msg]
FileNotFoundError(msg) == [type |-> "FileNotFoundError", msg |-> msg]
UnboundLocalError(msg) == [type |-> "UnboundLocalError", msg |-> msg]

Return(v) == [val |-> v, err |-> NoError]
Raise(e) == [val |-> PyNone, err |-> e]

---------------------------------------------------------------------------
(* str: sequences of characters *)

UpperCase == <<"A","B","C","D","E","F","G","H","I","J","K","L","M",
               "N","O","P","Q","R","S","T","U","V","W","X","Y","Z">>
LowerCase == <<"a","b","c","d","e","f","g","h","i","j","k","l","m",
               "n","o","p","q","r","s","t","u","v","w","x","y","z">>

LowerChar(c) ==
    IF \E i \in 1..Len(UpperCase) : UpperCase[i] = c
    THEN LowerCase[CHOOSE i \in 1..Len(UpperCase) : UpperCase[i] = c]
    ELSE c

\* s.lower()
Lower(s) == [i \in 1..Len(s) |-> LowerChar(s[i])]

\* s.startswith(p), s.endswith(p)
StartsWith(s, p) == Len(s) >= Len(p) /\ SubSeq(s, 1, Len(p)) = p
EndsWith(s, p) == Len(s) >= Len(p) /\ SubSeq(s, Len(s) - Len(p) + 1, Len(s)) = p

s_ignore == <<"i","g","n","o","r","e">>
s_alert == <<"a","l","e","r","t">>
s_error == <<"e","r","r","o","r">>
s_auto == <<"a","u","t","o">>
s_none == <<"n","o","n","e">>
s_None == <<"N","o","n","e">>
s_user == <<"u","s","e","r">>
s_default == <<"d","e","f","a","u","l","t">>
s_minimal == <<"m","i","n","i","m","a","l">>
s_middle == <<"m","i","d","d","l","e">>
s_maximal == <<"m","a","x","i","m","a","l">>
s_init == <<"i","n","i","t">>
s_json == <<".","j","s","o","n">>
s_yaml == <<".","y","a","m","l">>
s_yml == <<".","y","m","l">>
s_StateVarDef == <<"S","t","a","t","e","V","a","r","D","e","f">>
s_StateVariable_class == <<"S","t","a","t","e","V","a","r","i","a","b","l","e"," ","c","l","a","s","s">>

---------------------------------------------------------------------------
(* dict: sequences of <<key, value>> pairs, insertion ordered *)

Has(d, k) == \E i \in 1..Len(d) : d[i][1] = k
Get(d, k) == d[CHOOSE i \in 1..Len(d) : d[i][1] = k][2]
Keys(d) == [i \in 1..Len(d) |-> d[i][1]]
KeySet(d) == {d[i][1] : i \in 1..Len(d)}

\* d[k] = v
Put(d, k, v) ==
    IF Has(d, k)
    THEN [i \in 1..Len(d) |-> IF d[i][1] = k THEN <<k, v>> ELSE d[i]]
    ELSE Append(d, <<k, v>>)

\* del d[k]
Del(d, k) == SelectSeq(d, LAMBDA e : e[1] # k)

\* d.update(e)
RECURSIVE Update(_, _)
Update(d, e) ==
    IF e = <<>> THEN d
    ELSE Update(Put(d, Head(e)[1], Head(e)[2]), Tail(e))

---------------------------------------------------------------------------
(* sv_util *)

INVALID == <<"_","x","_","i","N","v","A","l","I","d","_","x","_">>

\* sv_util._bool_from_input_
_bool_from_input_(inputv) ==
    IF inputv.type = "bool" THEN Return(inputv)
    ELSE IF inputv.type = "str" THEN
        IF Len(inputv.val) = 0
        THEN Raise(IndexError("string index out of range"))
        ELSE IF Lower(inputv.val)[1] \in {"f", "n", "0"} THEN Return(PyBool(FALSE))
        ELSE IF Lower(inputv.val)[1] \in {"t", "y", "1"} THEN Return(PyBool(TRUE))
        ELSE Raise(StateVariableError("Ambiguous bool eval"))
    ELSE Return(PyBool(Truthy(inputv)))

TypeNames == {<<"s","t","r">>, <<"i","n","t">>, <<"f","l","o","a","t">>,
              <<"c","o","m","p","l","e","x">>, <<"t","u","p","l","e">>,
              <<"l","i","s","t">>, <<"s","e","t">>, <<"d","i","c","t">>,
              <<"b","o","o","l">>}

\* the type a name in TypeNames evaluates to
EvalTypeName(s) ==
    CASE s = <<"s","t","r">> -> PyType("str")
      [] s = <<"i","n","t">> -> PyType("int")
      [] s = <<"f","l","o","a","t">> -> PyType("float")
      [] s = <<"c","o","m","p","l","e","x">> -> PyType("complex")
      [] s = <<"t","u","p","l","e">> -> PyType("tuple")
      [] s = <<"l","i","s","t">> -> PyType("list")
      [] s = <<"s","e","t">> -> PyType("set")
      [] s = <<"d","i","c","t">> -> PyType("dict")
      [] s = <<"b","o","o","l">> -> PyType("bool")

\* sv_util._type_from_input_ (None result stands for Python None)
_type_from_input_(inputv, etval) ==
    IF inputv.type = "type" THEN inputv
    ELSE IF inputv.type = "NoneType" THEN PyNone
    ELSE IF inputv.type = "str" THEN
        IF inputv.val \in TypeNames THEN EvalTypeName(inputv.val)
        ELSE IF Lower(inputv.val) = s_none THEN PyNone
        ELSE IF Lower(inputv.val) = s_auto THEN
            IF etval.type = "NoneType" THEN PyNone ELSE TypeOf(etval)
        ELSE PyType("str")
    ELSE TypeOf(inputv)

\* sv_util._dict_from_input_: the items of the resulting dict.  The model holds
\* no files: a filename string fails where the code opens or reads the file.
_dict_from_input_(inputv, list_key) ==
    IF inputv.type = "dict" THEN Return(inputv.val)
    ELSE IF inputv.type = "NoneType" THEN Return(<<>>)
    ELSE IF inputv.type = "list" THEN
        IF \E i \in 1..Len(inputv.val) : ~Has(inputv.val[i].val, list_key)
        THEN Raise(KeyError(list_key))
        ELSE LET entry(i) == inputv.val[i]
                 RECURSIVE build(_, _)
                 build(i, acc) ==
                     IF i > Len(inputv.val) THEN acc
                     ELSE build(i + 1, Put(acc, Get(entry(i).val, list_key), entry(i)))
             IN Return(build(1, <<>>))
    ELSE IF inputv.type = "str" THEN
        IF \E i \in 1..Len(inputv.val) :
               LET filename == Lower(SubSeq(inputv.val, 1, i)) IN
               /\ (i = Len(inputv.val) \/ inputv.val[i + 1] = ":")
               /\ \A j \in 1..i : inputv.val[j] # ":"
               /\ (EndsWith(filename, s_json) \/ EndsWith(filename, s_yaml)
                   \/ EndsWith(filename, s_yml))
        THEN Raise(FileNotFoundError("No such file or directory"))
        ELSE Raise(UnboundLocalError("readfile"))
    ELSE Raise(AttributeError("split"))

---------------------------------------------------------------------------
(* state_variable_meta.Metastate *)

\* Metastate.parameters: type, choices (PyNone when there are none), default
parameters == <<
    <<"label", [type |-> {"str"}, choices |-> PyNone, default |-> PyStr(s_StateVarDef)]>>,
    <<"note", [type |-> {"str"}, choices |-> PyNone, default |-> PyStr(s_StateVariable_class)]>>,
    <<"state", [type |-> {"dict"}, choices |-> PyNone, default |-> PyDict(<<>>)]>>,
    <<"attr", [type |-> {"list"}, choices |-> PyNone, default |-> PyList(<<>>)]>>,
    <<"verbose", [type |-> {"bool"}, choices |-> PyList(<<PyBool(TRUE), PyBool(FALSE)>>),
                  default |-> PyBool(FALSE)]>>,
    <<"enforce_set", [type |-> {"bool"}, choices |-> PyList(<<PyBool(TRUE), PyBool(FALSE)>>),
                      default |-> PyBool(FALSE)]>>,
    <<"enforce_type", [type |-> {"bool"}, choices |-> PyList(<<PyBool(TRUE), PyBool(FALSE)>>),
                       default |-> PyBool(FALSE)]>>,
    <<"notify_set", [type |-> {"str"},
                     choices |-> PyList(<<PyStr(s_ignore), PyStr(s_alert), PyStr(s_error)>>),
                     default |-> PyStr(s_ignore)]>>,
    <<"notify_type", [type |-> {"str"},
                      choices |-> PyList(<<PyStr(s_ignore), PyStr(s_alert), PyStr(s_error)>>),
                      default |-> PyStr(s_ignore)]>>,
    <<"package", [type |-> {"str", "dict"}, choices |-> PyNone, default |-> PyStr(s_default)]>>,
    <<"override", [type |-> {"bool", "str", "dict"}, choices |-> PyNone,
                   default |-> PyBool(FALSE)]>> >>

\* Metastate.state_key_defaults
state_key_defaults == <<
    <<"state_name", PyNone>>, <<"state_value", PyNone>>,
    <<"state_type", PyStr(s_auto)>>, <<"state_description", PyNone>> >>

\* x in choices, for a list of choices
InChoices(x, choices) == \E i \in 1..Len(choices.val) : PyEq(x, choices.val[i])

\* Metastate._make_defined_packages_: self.defined_pkg, keyed by package name
_make_defined_packages_ == <<
    <<s_default, << <<"package", PyStr(s_default)>>,
                    <<"verbose", Get(parameters, "verbose").default>>,
                    <<"enforce_set", Get(parameters, "enforce_set").default>>,
                    <<"enforce_type", Get(parameters, "enforce_type").default>>,
                    <<"notify_set", Get(parameters, "notify_set").default>>,
                    <<"notify_type", Get(parameters, "notify_type").default>> >> >>,
    <<s_minimal, << <<"package", PyStr(s_minimal)>>, <<"verbose", PyBool(FALSE)>>,
                    <<"enforce_set", PyBool(FALSE)>>, <<"enforce_type", PyBool(FALSE)>>,
                    <<"notify_set", PyStr(s_ignore)>>, <<"notify_type", PyStr(s_ignore)>> >> >>,
    <<s_middle, << <<"package", PyStr(s_middle)>>, <<"verbose", PyBool(TRUE)>>,
                   <<"enforce_set", PyBool(TRUE)>>, <<"enforce_type", PyBool(FALSE)>>,
                   <<"notify_set", PyStr(s_alert)>>, <<"notify_type", PyStr(s_alert)>> >> >>,
    <<s_maximal, << <<"package", PyStr(s_maximal)>>, <<"verbose", PyBool(TRUE)>>,
                    <<"enforce_set", PyBool(TRUE)>>, <<"enforce_type", PyBool(TRUE)>>,
                    <<"notify_set", PyStr(s_error)>>, <<"notify_type", PyStr(s_error)>> >> >>,
    <<s_init, << <<"package", PyStr(s_init)>>,
                 <<"enforce_set", PyBool(FALSE)>>, <<"enforce_type", PyBool(FALSE)>>,
                 <<"notify_set", PyStr(s_ignore)>>, <<"notify_type", PyStr(s_ignore)>> >> >> >>

\* results of the methods: the object after the call, the value returned, the
\* exception raised, the alert lines printed
Result(m, val, e, out) == [m |-> m, val |-> val, err |-> e, out |-> out]

\* the cull loop of apply_package: delete the keys that are no parameters
RECURSIVE CullPackage(_, _)
CullPackage(this_package, cull_package) ==
    IF cull_package = <<>> THEN this_package
    ELSE CullPackage(IF ~Has(parameters, Head(cull_package))
                     THEN Del(this_package, Head(cull_package))
                     ELSE this_package,
                     Tail(cull_package))

\* apply_package on a dict: the entry 'package' it gets when it has none
NamedPackage(package) ==
    IF ~Has(package.val, "package") \/ Get(package.val, "package").type = "NoneType"
    THEN Put(package.val, "package", PyStr(s_user))
    ELSE package.val

\* the end of apply_package.  A dict is registered as a copy; a known name
\* aliases the registered dict, so that the cull has edited that dict too
ReturnPackage(m, package, registered, culled) ==
    Result([m EXCEPT !.defined_pkg =
                IF package.type = "str" THEN Put(registered, package.val, culled)
                ELSE registered],
           IF Len(culled) = 1 /\ culled[1][1] = "package" THEN <<>> ELSE culled,
           NoError, <<>>)

\* apply_package on a dict that has its entry 'package'
ApplyDict(m, named) ==
    ReturnPackage(m, PyDict(named),
                  Put(m.defined_pkg, Get(named, "package").val, named),
                  CullPackage(named, Keys(named)))

\* Metastate.apply_package; val is the dict returned
apply_package(m, package) ==
    IF \/ package.type = "NoneType"
       \/ package.type = "str" /\ package.val \in {s_none, s_None}
    THEN Result(m, <<>>, NoError, <<>>)
    ELSE IF package.type = "dict" THEN ApplyDict(m, NamedPackage(package))
    ELSE IF package.type # "str"
    THEN Result(m, <<>>, AttributeError("endswith"), <<>>)
    ELSE IF \/ EndsWith(package.val, s_json) \/ EndsWith(package.val, s_yaml)
            \/ EndsWith(package.val, s_yml)
    THEN Result(m, <<>>, FileNotFoundError("No such file or directory"), <<>>)
    ELSE IF Has(m.defined_pkg, package.val)
    THEN ReturnPackage(m, package, m.defined_pkg,
                       CullPackage(Get(m.defined_pkg, package.val),
                                   Keys(Get(m.defined_pkg, package.val))))
    ELSE Result(m, <<>>, NoError, <<>>)

\* a variant of NotifyChoice that takes any value as it is
NotifyChoice_Unchecked(this_key, this_val) == Return(this_val)

\* _process_meta_key_val_ on a notify_ key: the lowered choice, or the last choice
NotifyChoice(this_key, this_val) ==
    LET choices == Get(parameters, this_key).choices IN
    IF this_val.type # "str" THEN Raise(AttributeError("lower"))
    ELSE IF InChoices(PyStr(Lower(this_val.val)), choices)
    THEN Return(PyStr(Lower(this_val.val)))
    ELSE Return(choices.val[Len(choices.val)])

\* Metastate._process_meta_key_val_
_process_meta_key_val_(this_key, this_val) ==
    IF ~Has(parameters, this_key)
    THEN Return(PyStr(INVALID \o <<"|", this_key>>))
    ELSE IF this_key = "state" THEN Return(PyNone)
    ELSE IF this_key \in {"enforce_set", "enforce_type", "verbose"}
    THEN _bool_from_input_(this_val)
    ELSE IF this_key \in {"notify_set", "notify_type"}
    THEN NotifyChoice(this_key, this_val)
    ELSE IF /\ Get(parameters, this_key).choices.type = "NoneType"
            /\ IsInstance(this_val, Get(parameters, this_key).type)
    THEN Return(this_val)
    ELSE IF /\ Get(parameters, this_key).choices.type = "list"
            /\ InChoices(this_val, Get(parameters, this_key).choices)
    THEN Return(this_val)
    ELSE Return(PyStr(INVALID \o <<"|", this_key, "=">>))

\* Metastate._svm_alert_ (the label is left out of the line)
_svm_alert_(msg) == "ALERT:MSV: " \o msg

\* the type gate's test: a concrete type is known and the value's type is another
IncorrectType(update_state) ==
    /\ Get(update_state, "state_type").type = "type"
    /\ ~PyEq(TypeOf(Get(update_state, "state_value")), Get(update_state, "state_type"))

\* the set gate's test: the name is no state variable yet
NotDefined(m, update_state) == ~Has(m.state.val, Get(update_state, "state_name"))

\* a variant of EntryComplies in which enforce_type drops nothing
EntryComplies_NoTypeEnforce(m, bad_type, bad_set) == ~(bad_set /\ Truthy(m.enforce_set))

\* a variant of EntryComplies in which enforce_set drops nothing
EntryComplies_NoSetEnforce(m, bad_type, bad_set) == ~(bad_type /\ Truthy(m.enforce_type))

\* entry_complies: a failed gate whose enforce flag is set drops the entry
EntryComplies(m, bad_type, bad_set) ==
    /\ ~(bad_type /\ Truthy(m.enforce_type))
    /\ ~(bad_set /\ Truthy(m.enforce_set))

\* a variant of TypeGateRaises that raises only under enforce_type
TypeGateRaises_OnlyEnforced(m, bad_type) ==
    bad_type /\ PyEq(m.notify_type, PyStr(s_error)) /\ Truthy(m.enforce_type)

\* the type gate raises in notify mode 'error'
TypeGateRaises(m, bad_type) == bad_type /\ PyEq(m.notify_type, PyStr(s_error))

\* a variant of SetGateRaises that raises only without enforce_set
SetGateRaises_Unenforced(m, bad_set) ==
    bad_set /\ PyEq(m.notify_set, PyStr(s_error)) /\ ~Truthy(m.enforce_set)

\* the set gate raises in notify mode 'error'
SetGateRaises(m, bad_set) == bad_set /\ PyEq(m.notify_set, PyStr(s_error))

\* Metastate._complies; val is entry_complies
_complies(m, update_state) ==
    LET state_name == Get(update_state, "state_name")
        bad_type == IncorrectType(update_state)
        type_msg == "incorrect type for " \o state_name
        type_out == IF bad_type /\ PyEq(m.notify_type, PyStr(s_alert))
                    THEN <<_svm_alert_((IF Truthy(m.enforce_type)
                                        THEN "Not setting value since "
                                        ELSE "Setting value although ") \o type_msg)>>
                    ELSE <<>>
        bad_set == NotDefined(m, update_state)
        set_msg == state_name \o " is not a defined state variable."
        set_out == IF bad_set /\ PyEq(m.notify_set, PyStr(s_alert))
                   THEN <<_svm_alert_((IF Truthy(m.enforce_set)
                                       THEN "Not setting value since "
                                       ELSE "Setting value although ") \o set_msg)>>
                   ELSE <<>>
    IN  IF TypeGateRaises(m, bad_type)
        THEN Result(m, FALSE, StateVariableError(_svm_alert_(type_msg)), <<>>)
        ELSE IF SetGateRaises(m, bad_set)
        THEN Result(m, FALSE, StateVariableError(_svm_alert_(set_msg)), type_out)
        ELSE Result(m, EntryComplies(m, bad_type, bad_set), NoError, type_out \o set_out)

\* a variant of ResolveAuto that infers the type anew on every update
ResolveAuto_Always(update_state) ==
    Put(update_state, "state_type", TypeOf(Get(update_state, "state_value")))

\* a variant of ResolveAuto that leaves the sentinel in the descriptor
ResolveAuto_Never(update_state) == update_state

\* the sentinel 'auto' becomes the runtime type of the value
ResolveAuto(update_state) ==
    IF PyEq(Get(update_state, "state_type"), PyStr(s_auto))
    THEN Put(update_state, "state_type", TypeOf(Get(update_state, "state_value")))
    ELSE update_state

\* a result r followed by the result of the next step, the output accumulated
Accumulate(r, step) == Result(step.m, step.val, step.err, r.out \o step.out)

\* update_state in _update_meta_state_parameter: the stored descriptor or the
\* defaults, updated with the entry sv_name: sv_val
MergedEntry(m, sv_name, sv_val) ==
    Update(IF Has(m.state.val, sv_name) THEN Get(m.state.val, sv_name).val
           ELSE state_key_defaults,
           IF sv_val.type = "dict" /\ Has(sv_val.val, "state_value")
           THEN IF Has(sv_val.val, "state_name") THEN sv_val.val
                ELSE Put(sv_val.val, "state_name", sv_name)
           ELSE << <<"state_name", sv_name>>, <<"state_value", sv_val>> >>)

\* a variant of StoreEntry that stores update_state as the only variable
StoreEntry_Alone(m, update_state, c) ==
    IF c.err = NoError /\ c.val
    THEN Result([m EXCEPT !.state =
                     PyDict(<< <<Get(update_state, "state_name"), PyDict(update_state)>> >>)],
                PyNone, NoError, c.out)
    ELSE Result(m, PyNone, c.err, c.out)

\* the last lines of the loop: update_state is stored when it complies (c)
StoreEntry(m, update_state, c) ==
    IF c.err = NoError /\ c.val
    THEN Result([m EXCEPT !.state =
                     PyDict(Put(m.state.val, Get(update_state, "state_name"),
                                PyDict(update_state)))],
                PyNone, NoError, c.out)
    ELSE Result(m, PyNone, c.err, c.out)

\* the gate and the store for an update_state whose type is resolved
CheckAndStore(m, update_state) == StoreEntry(m, update_state, _complies(m, update_state))

\* a variant of UpdateEntry that stores the descriptor under the key of the entry
UpdateEntry_OuterKey(m, sv_name, sv_val) ==
    LET update_state == ResolveAuto(MergedEntry(m, sv_name, sv_val))
        c == _complies(m, update_state)
    IN  IF c.err = NoError /\ c.val
        THEN Result([m EXCEPT !.state = PyDict(Put(m.state.val, sv_name, PyDict(update_state)))],
                    PyNone, NoError, c.out)
        ELSE Result(m, PyNone, c.err, c.out)

\* one pass of the loop of _update_meta_state_parameter: the entry sv_name: sv_val
UpdateEntry(m, sv_name, sv_val) ==
    CheckAndStore(m, ResolveAuto(MergedEntry(m, sv_name, sv_val)))

\* the loop of _update_meta_state_parameter over the items, from the result r on
RECURSIVE UpdateEntries(_, _)
UpdateEntries(r, items) ==
    IF items = <<>> \/ r.err # NoError THEN r
    ELSE UpdateEntries(Accumulate(r, UpdateEntry(r.m, Head(items)[1], Head(items)[2])),
                       Tail(items))

\* a variant of UpdateFromDict that stores no entry when one entry raises
RolledBack(m, r) == IF r.err # NoError THEN Result(m, PyNone, r.err, r.out) ELSE r
UpdateFromDict_Atomic(m, d) ==
    IF d.err # NoError THEN Result(m, PyNone, d.err, <<>>)
    ELSE RolledBack(m, UpdateEntries(Result(m, PyNone, NoError, <<>>), d.val))

\* _update_meta_state_parameter once _dict_from_input_ gave d
UpdateFromDict(m, d) ==
    IF d.err # NoError THEN Result(m, PyNone, d.err, <<>>)
    ELSE UpdateEntries(Result(m, PyNone, NoError, <<>>), d.val)

\* Metastate._update_meta_state_parameter
_update_meta_state_parameter(m, meta_state) ==
    UpdateFromDict(m, _dict_from_input_(meta_state, "state_name"))

skip_these == {"package", "verbose", "override", "state"}

\* the body of the loop of mset once _process_meta_key_val_ gave value
AssignParameter(r, this_key, value) ==
    IF value.err # NoError THEN Result(r.m, PyNone, value.err, r.out)
    ELSE IF value.val.type = "str" /\ StartsWith(value.val.val, INVALID)
    THEN Result(r.m, PyNone, NoError,
                IF Truthy(r.m.verbose)
                THEN Append(r.out, _svm_alert_(this_key \o " not allowed metastate option"))
                ELSE r.out)
    ELSE Result([r.m EXCEPT ![this_key] = value.val], PyNone, NoError, r.out)

\* the loop of mset over setargs: the meta parameters other than skip_these
RECURSIVE SetMetaParameters(_, _)
SetMetaParameters(r, items) ==
    IF items = <<>> \/ r.err # NoError THEN r
    ELSE SetMetaParameters(
             IF Head(items)[1] \in skip_these THEN r
             ELSE AssignParameter(r, Head(items)[1],
                                  _process_meta_key_val_(Head(items)[1], Head(items)[2])),
             Tail(items))

\* a variant of SetArgs in which the package's values win over the explicit ones
SetArgs_PackageWins(package, kwargs) == Update(Del(kwargs, "package"), package)

\* setargs: the package's dict, updated with the explicit keyword arguments
SetArgs(package, kwargs) == Update(package, Del(kwargs, "package"))

\* a variant of MsetState that names the package 'user' once the state step
\* returned
MarkedUser(r) ==
    IF r.err = NoError
    THEN Result([r.m EXCEPT !.package = PyStr(s_user)], r.val, r.err, r.out)
    ELSE r
MsetState_User(set, setargs) ==
    IF set.err # NoError \/ ~Has(setargs, "state") THEN set
    ELSE MarkedUser(Accumulate(set, _update_meta_state_parameter(set.m, Get(setargs, "state"))))

\* mset, "Process meta state"
MsetState(set, setargs) ==
    IF set.err # NoError \/ ~Has(setargs, "state") THEN set
    ELSE Accumulate(set, _update_meta_state_parameter(set.m, Get(setargs, "state")))

\* mset, "Process other meta parameters", once verbose is processed
MsetParameters(m, setargs, verbose) ==
    IF verbose.err # NoError THEN Result(m, PyNone, verbose.err, <<>>)
    ELSE MsetState(SetMetaParameters(Result([m EXCEPT !.verbose = verbose.val],
                                            PyNone, NoError, <<>>),
                                     setargs),
                   setargs)

\* mset, "Process verbose"
MsetVerbose(m, setargs) ==
    MsetParameters(m, setargs,
                   IF Has(setargs, "verbose")
                   THEN _process_meta_key_val_("verbose", Get(setargs, "verbose"))
                   ELSE Return(m.verbose))

\* mset once apply_package gave pkg
MsetPackage(pkg, kwargs) ==
    IF pkg.err # NoError THEN Result(pkg.m, PyNone, pkg.err, <<>>)
    ELSE MsetVerbose(pkg.m, SetArgs(pkg.val, kwargs))

\* Metastate.mset
mset(m, kwargs) ==
    IF Len(kwargs) = 0 THEN Result(m, PyNone, NoError, <<>>)
    ELSE MsetPackage(IF Has(kwargs, "package")
                     THEN apply_package(m, Get(kwargs, "package"))
                     ELSE Result(m, <<>>, NoError, <<>>),
                     kwargs)

\* a variant of reset_state_key that also puts enforce_set back to its default
reset_state_key_Policy(m) ==
    [m EXCEPT !.state = PyDict(<<>>), !.enforce_set = PyBool(FALSE)]

\* Metastate.reset_state_key
reset_state_key(m) == [m EXCEPT !.state = PyDict(<<>>)]

\* the object __init__ builds before it calls mset: every parameter at its default
DefaultMeta ==
    [label |-> Get(parameters, "label").default,
     note |-> Get(parameters, "note").default,
     state |-> Get(parameters, "state").default,
     attr |-> Get(parameters, "attr").default,
     verbose |-> Get(parameters, "verbose").default,
     enforce_set |-> Get(parameters, "enforce_set").default,
     enforce_type |-> Get(parameters, "enforce_type").default,
     notify_set |-> Get(parameters, "notify_set").default,
     notify_type |-> Get(parameters, "notify_type").default,
     package |-> Get(parameters, "package").default,
     override |-> Get(parameters, "override").default,
     defined_pkg |-> _make_defined_packages_]

\* Metastate.__init__
Metastate(kwargs) == mset(DefaultMeta, kwargs)

---------------------------------------------------------------------------
(* The calls the model makes: names, values and keyword arguments *)

MaxValues == 2

Names == {"frequency", "bandwidth"}

ValueList == <<PyFloat("1420.0"), PyStr(<<"a","b","c">>), PyFloat("1.0"), PyInt(5)>>
Values == {ValueList[i] : i \in 1..MaxValues}

\* keyword arguments of mset that carry a state mapping of one bare entry
StateKwargs == {<< <<"state", PyDict(<< <<n, v>> >>)>> >> : n \in Names, v \in Values}

\* keyword arguments of mset that set one policy parameter
PolicyKwargs ==
    {<< <<k, PyBool(b)>> >> : k \in {"enforce_set", "enforce_type"}, b \in BOOLEAN}
    \cup {<< <<k, PyStr(c)>> >> : k \in {"notify_set", "notify_type"},
                                  c \in {s_ignore, s_alert, s_error}}

\* keyword arguments of mset that set one policy parameter and carry a state mapping
PolicyStateKwargs ==
    {<< <<"enforce_set", PyBool(b)>>, <<"state", PyDict(<< <<"bandwidth", v>> >>)>> >> :
         b \in BOOLEAN, v \in Values}

MsetKwargs == {<<>>} \cup StateKwargs \cup PolicyKwargs \cup PolicyStateKwargs

---------------------------------------------------------------------------
(* The Registry used alone, its policy set key by key *)

Init ==
    /\ \E kwargs \in {<<>>} \cup StateKwargs :
           \E r \in {Metastate(kwargs)} :
           /\ r.err = NoError
           /\ meta = r.m
           /\ call = [op |-> "__init__", kwargs |-> kwargs, out |-> r.out]
    /\ sv = <<>>
    /\ err = NoError
    /\ tracker = PyNone
    /\ added = <<>>

\* meta.mset(**kwargs)
Mset ==
    \E kwargs \in MsetKwargs :
        \E r \in {mset(meta, kwargs)} :
        /\ meta' = r.m
        /\ call' = [op |-> "mset", kwargs |-> kwargs, out |-> r.out]
        /\ err' = r.err
        /\ UNCHANGED <<sv, tracker, added>>

\* meta.reset_state_key()
ResetStateKey ==
    /\ meta' = reset_state_key(meta)
    /\ call' = [op |-> "reset_state_key", kwargs |-> <<>>, out |-> <<>>]
    /\ err' = NoError
    /\ UNCHANGED <<sv, tracker, added>>

Next == Mset \/ ResetStateKey

Spec == Init /\ [][Next]_vars

---------------------------------------------------------------------------
(* What the claims speak of *)

\* the names declared in the Registry m, and the descriptor of one of them
Declared(m, n) == Has(m.state.val, n)
Descriptor(m, n) == Get(m.state.val, n).val
StoredValue(m, n) == Get(Descriptor(m, n), "state_value")
StoredType(m, n) == Get(Descriptor(m, n), "state_type")

\* the entries of the state mapping a call carries
Entries(c) ==
    IF Has(c.kwargs, "state") /\ Get(c.kwargs, "state").type = "dict"
    THEN Get(c.kwargs, "state").val
    ELSE <<>>

\* an entry is a descriptor, or else a bare value
IsDescriptor(x) == x.type = "dict" /\ Has(x.val, "state_value")
EntryName(e) == IF IsDescriptor(e[2]) /\ Has(e[2].val, "state_name")
                THEN Get(e[2].val, "state_name") ELSE e[1]
EntryValue(e) == IF IsDescriptor(e[2]) THEN Get(e[2].val, "state_value") ELSE e[2]
GivesType(e) == IsDescriptor(e[2]) /\ Has(e[2].val, "state_type")

\* the call carries the one entry e, which gives no type of its own
OneEntry(c, e) == Entries(c) = <<e>> /\ ~GivesType(e)

\* the entry gives a declared variable of concrete type a value of another type
WrongType(m, e) ==
    /\ Declared(m, e[1])
    /\ StoredType(m, e[1]).type = "type"
    /\ TypeOf(EntryValue(e)) # StoredType(m, e[1])

NotifyIs(x, modes) == x.type = "str" /\ x.val \in modes

AllEntries == {<<n, v>> : n \in Names, v \in Values}

---------------------------------------------------------------------------
(* The claims on the gates of the Registry, under Spec *)

\* C2: with enforce_type true and notify_type ignore or alert, an mset that gives
\* a declared variable of concrete type a value of another runtime type returns
\* without error and leaves the whole variable mapping, and so the descriptor of
\* that variable, exactly as it was.
C2_TypeGateDrops ==
    [][\A e \in AllEntries :
          ( /\ call'.op = "mset"
            /\ OneEntry(call', e)
            /\ WrongType(meta, e)
            /\ Truthy(meta'.enforce_type)
            /\ NotifyIs(meta'.notify_type, {s_ignore, s_alert}) )
          => /\ err' = NoError
             /\ meta'.state = meta.state]_vars

\* C2's case: an alerting, enforcing Registry has just dropped a wrongly typed update
C2_Witness ==
    \E e \in AllEntries :
        /\ call.op = "mset"
        /\ OneEntry(call, e)
        /\ WrongType(meta, e)
        /\ StoredValue(meta, e[1]) # EntryValue(e)
        /\ Truthy(meta.enforce_type)
        /\ NotifyIs(meta.notify_type, {s_alert})
        /\ call.out # <<>>
        /\ err = NoError

\* C3: with enforce_set true, an mset whose state names a variable that is not
\* declared never declares it, whatever notify_set is; with notify_set error the
\* call raises StateVariableError.
C3_SetGateDrops ==
    [][\A e \in AllEntries :
          ( /\ call'.op = "mset"
            /\ OneEntry(call', e)
            /\ ~Declared(meta, EntryName(e))
            /\ Truthy(meta'.enforce_set) )
          => /\ ~Declared(meta', EntryName(e))
             /\ meta'.state = meta.state
             /\ (NotifyIs(meta'.notify_set, {s_error})
                    => err'.type = "StateVariableError")]_vars

\* C3's case: an enforcing Registry in error mode has just refused a new name
C3_Witness ==
    \E e \in AllEntries :
        /\ call.op = "mset"
        /\ OneEntry(call, e)
        /\ ~Declared(meta, EntryName(e))
        /\ Truthy(meta.enforce_set)
        /\ NotifyIs(meta.notify_set, {s_error})
        /\ err.type = "StateVariableError"

\* C4: an mset of one entry raises StateVariableError exactly when the entry
\* fails the type gate with notify_type error or fails the set gate with
\* notify_set error, whatever enforce_type and enforce_set are.
C4_ErrorModeRaises ==
    [][\A e \in AllEntries :
          (call'.op = "mset" /\ OneEntry(call', e))
          => ( err'.type = "StateVariableError"
               <=> \/ WrongType(meta, e) /\ NotifyIs(meta'.notify_type, {s_error})
                   \/ ~Declared(meta, EntryName(e))
                      /\ NotifyIs(meta'.notify_set, {s_error}) )]_vars

\* C4's case: a Registry that does not enforce the type has just raised on a
\* wrongly typed update
C4_Witness ==
    \E e \in AllEntries :
        /\ call.op = "mset"
        /\ OneEntry(call, e)
        /\ WrongType(meta, e)
        /\ ~Truthy(meta.enforce_type)
        /\ NotifyIs(meta.notify_type, {s_error})
        /\ err.type = "StateVariableError"

---------------------------------------------------------------------------
(* The Registry under named packages and explicit governance keys *)

s_bogus == <<"b","o","g","u","s">>
s_abc == <<"a","b","c">>

PackageNames == {s_default, s_minimal, s_middle, s_maximal, s_init}

\* a package reference: a known name, 'none', None, or a name that is not known
PackageRefs == {PyStr(p) : p \in PackageNames} \cup {PyStr(s_none), PyNone, PyStr(s_bogus)}

\* one explicit governance key: conforming values, values to coerce, values that
\* fail coercion or choice membership, and a key that is no parameter
ExplicitKeys == {
    <<"verbose", PyBool(FALSE)>>, <<"verbose", PyStr(<<"y","e","s">>)>>,
    <<"verbose", PyStr(<<"m","a","y","b","e">>)>>, <<"verbose", PyStr(<<>>)>>,
    <<"enforce_set", PyBool(FALSE)>>, <<"enforce_set", PyInt(1)>>,
    <<"enforce_type", PyStr(<<"T","r","u","e">>)>>,
    <<"notify_set", PyStr(s_alert)>>, <<"notify_set", PyStr(<<"l","o","u","d">>)>>,
    <<"notify_set", PyInt(5)>>,
    <<"notify_type", PyStr(<<"A","L","E","R","T">>)>>, <<"notify_type", PyStr(s_ignore)>>,
    <<"label", PyInt(5)>>,
    <<"colour", PyStr(<<"r","e","d">>)>> }

\* the explicit keys passed together with a package
ExplicitWithPackage == {
    <<"verbose", PyBool(FALSE)>>, <<"enforce_set", PyBool(FALSE)>>,
    <<"notify_set", PyStr(<<"l","o","u","d">>)>>,
    <<"notify_type", PyStr(<<"A","L","E","R","T">>)>>,
    <<"label", PyStr(<<"L">>)>> }

\* keyword arguments of mset: a package, one explicit key, or a package with one
\* explicit key before or after it
GovernanceKwargs ==
    {<< <<"package", p>> >> : p \in PackageRefs}
    \cup {<< x >> : x \in ExplicitKeys}
    \cup {<< <<"package", PyStr(p)>>, x >> : p \in {s_maximal, s_init},
                                             x \in ExplicitWithPackage}
    \cup {<< x, <<"package", PyStr(s_middle)>> >> :
              x \in {<<"enforce_set", PyBool(FALSE)>>, <<"notify_set", PyStr(s_error)>>}}

\* keyword arguments of mset that carry frequency, alone or with a package
FrequencyKwargs ==
    {<< <<"state", PyDict(<< <<"frequency", v>> >>)>> >> : v \in Values}
    \cup {<< <<"package", PyStr(p)>>, <<"state", PyDict(<< <<"frequency", v>> >>)>> >> :
              p \in {s_maximal, s_minimal}, v \in Values}

PkgInit ==
    /\ \E kwargs \in {<<>>} \cup GovernanceKwargs \cup FrequencyKwargs :
           \E r \in {Metastate(kwargs)} :
           /\ r.err = NoError
           /\ meta = r.m
           /\ call = [op |-> "__init__", kwargs |-> kwargs, out |-> r.out]
    /\ sv = <<>>
    /\ err = NoError
    /\ tracker = PyNone
    /\ added = <<>>

\* meta.mset(**kwargs) with governance keys
MsetGovernance ==
    \E kwargs \in GovernanceKwargs :
        \E r \in {mset(meta, kwargs)} :
        /\ meta' = r.m
        /\ call' = [op |-> "mset", kwargs |-> kwargs, out |-> r.out]
        /\ err' = r.err
        /\ UNCHANGED <<sv, tracker, added>>

\* meta.mset(**kwargs) with a state mapping for frequency
MsetFrequency ==
    \E kwargs \in FrequencyKwargs :
        \E r \in {mset(meta, kwargs)} :
        /\ meta' = r.m
        /\ call' = [op |-> "mset", kwargs |-> kwargs, out |-> r.out]
        /\ err' = r.err
        /\ UNCHANGED <<sv, tracker, added>>

PkgNext == MsetGovernance \/ MsetFrequency \/ ResetStateKey

PkgSpec == PkgInit /\ [][PkgNext]_vars

---------------------------------------------------------------------------
(* The claims on packages and governance parameters, under PkgSpec *)

f1420 == PyFloat("1420.0")
abc == PyStr(s_abc)

\* the call names the known package p
CallsPackage(c, p) == Has(c.kwargs, "package") /\ Get(c.kwargs, "package") = PyStr(p)

\* the call carries frequency: v and nothing else in its state mapping
SetsFrequency(c, v) == OneEntry(c, <<"frequency", v>>)

\* frequency was declared with the value 1420.0, its type inferred
FrequencyDeclared(m) ==
    /\ Declared(m, "frequency")
    /\ StoredValue(m, "frequency") = f1420
    /\ StoredType(m, "frequency") = PyType("float")

\* C6 (as amended): in one mset under package 'maximal', declaring frequency with
\* 1420.0 raises StateVariableError and leaves frequency undeclared; when
\* frequency was declared with 1420.0 before, updating it to 'abc' raises
\* StateVariableError and leaves the stored descriptor as it was.
C6_MaximalRejects ==
    [][(call'.op = "mset" /\ CallsPackage(call', s_maximal))
       => /\ (SetsFrequency(call', f1420) /\ ~Declared(meta, "frequency"))
                => (err'.type = "StateVariableError" /\ ~Declared(meta', "frequency"))
          /\ (SetsFrequency(call', abc) /\ FrequencyDeclared(meta))
                => (err'.type = "StateVariableError" /\ meta'.state = meta.state)]_vars

\* C6's case: under 'maximal' the update of the declared frequency to 'abc' has
\* just raised
C6_Witness ==
    /\ call.op = "mset"
    /\ CallsPackage(call, s_maximal)
    /\ SetsFrequency(call, abc)
    /\ FrequencyDeclared(meta)
    /\ err.type = "StateVariableError"

\* C6 as claimed: under package 'maximal', declaring frequency with 1420.0
\* succeeds and creates the variable.
C6_MaximalDeclares ==
    [][(/\ call'.op = "mset"
        /\ CallsPackage(call', s_maximal)
        /\ SetsFrequency(call', f1420)
        /\ ~Declared(meta, "frequency"))
       => (err' = NoError /\ FrequencyDeclared(meta'))]_vars

\* C7 (as amended): in one mset under package 'minimal', updating frequency,
\* declared with 1420.0, to 'abc' returns without error and prints no alert; the
\* stored descriptor has the value 'abc' and keeps the type float.
C7_MinimalStoresKeepingType ==
    [][(/\ call'.op = "mset"
        /\ CallsPackage(call', s_minimal)
        /\ SetsFrequency(call', abc)
        /\ FrequencyDeclared(meta))
       => /\ err' = NoError
          /\ call'.out = <<>>
          /\ StoredValue(meta', "frequency") = abc
          /\ StoredType(meta', "frequency") = PyType("float")]_vars

\* C7's case: under 'minimal' a frequency of type float has just been given 'abc'
C7_Witness ==
    /\ call.op = "mset"
    /\ CallsPackage(call, s_minimal)
    /\ SetsFrequency(call, abc)
    /\ err = NoError
    /\ Declared(meta, "frequency")
    /\ StoredValue(meta, "frequency") = abc
    /\ StoredType(meta, "frequency") = PyType("float")

\* C7 as claimed: after that update the stored type is the runtime type of 'abc'.
C7_MinimalStoresOwnType ==
    [][(/\ call'.op = "mset"
        /\ CallsPackage(call', s_minimal)
        /\ SetsFrequency(call', abc)
        /\ FrequencyDeclared(meta))
       => /\ err' = NoError
          /\ call'.out = <<>>
          /\ StoredValue(meta', "frequency") = abc
          /\ StoredType(meta', "frequency") = TypeOf(abc)]_vars

\* every parameter of the Registry m holds a value of its declared type and,
\* where it has a list of choices, one of them
Conforms(m) ==
    \A i \in 1..Len(parameters) :
        LET k == parameters[i][1]
            par == parameters[i][2]
        IN  /\ IsInstance(m[k], par.type)
            /\ par.choices.type = "list" => InChoices(m[k], par.choices)

\* the explicit keyword arguments of a call: all but package and state
Explicit(c) == {c.kwargs[i] : i \in {j \in 1..Len(c.kwargs) :
                                       c.kwargs[j][1] \notin {"package", "state"}}}

\* a string that no choice of the parameter k matches, also when lowered
NoChoice(k, x) ==
    /\ x.type = "str"
    /\ ~InChoices(PyStr(Lower(x.val)), Get(parameters, k).choices)

\* a string that does not begin with one of f, n, 0, t, y, 1 in either case
AmbiguousBool(x) ==
    /\ x.type = "str"
    /\ Len(x.val) > 0
    /\ Lower(x.val)[1] \notin {"f", "n", "0", "t", "y", "1"}

\* the value x fails the coercion or the choice list of the parameter k
FailsCoercion(k, x) ==
    CASE k \in {"notify_set", "notify_type"} -> x.type # "str" \/ NoChoice(k, x)
      [] k \in {"verbose", "enforce_set", "enforce_type"} -> AmbiguousBool(x)
      [] k \in {"label", "note"} -> ~IsInstance(x, Get(parameters, k).type)
      [] OTHER -> FALSE

PolicyKeys == {"verbose", "enforce_set", "enforce_type", "notify_set", "notify_type"}

\* C9: after an mset that names a known package P and returns, the package
\* parameter equals P; after an mset without package key that returns and changes
\* a governance parameter, it equals 'user'.
C9_PackageNamesPolicy ==
    [][(call'.op = "mset" /\ err' = NoError)
       => /\ \A p \in PackageNames :
                 CallsPackage(call', p) => meta'.package = PyStr(p)
          /\ (/\ ~Has(call'.kwargs, "package")
              /\ \E k \in PolicyKeys \cup {"label", "note"} : meta'[k] # meta[k])
                => meta'.package = PyStr(s_user)]_vars

\* C10 (as amended): after an mset that names a known package P and returns, each
\* policy parameter holds the coerced explicit value when one was passed (the
\* value itself when it conforms to the parameter's type and choices), else the
\* value P defines for it, else its value before the call.
C10_ExplicitOverPackage ==
    [][\A p \in PackageNames :
          (call'.op = "mset" /\ CallsPackage(call', p) /\ err' = NoError)
          => \A k \in PolicyKeys :
                 LET P == Get(meta.defined_pkg, p) IN
                 IF Has(call'.kwargs, k)
                 THEN /\ meta'[k] = _process_meta_key_val_(k, Get(call'.kwargs, k)).val
                      /\ (IsInstance(Get(call'.kwargs, k), Get(parameters, k).type)
                          /\ InChoices(Get(call'.kwargs, k), Get(parameters, k).choices))
                            => meta'[k] = Get(call'.kwargs, k)
                 ELSE IF Has(P, k) THEN meta'[k] = Get(P, k)
                 ELSE meta'[k] = meta[k]]_vars

\* C10's case: 'maximal' has just been applied with notify_type='ALERT' passed
\* explicitly: notify_type holds the coerced 'alert', notify_set the package's
\* 'error'
C10_Witness ==
    /\ call.op = "mset"
    /\ err = NoError
    /\ CallsPackage(call, s_maximal)
    /\ Has(call.kwargs, "notify_type")
    /\ Get(call.kwargs, "notify_type") = PyStr(<<"A","L","E","R","T">>)
    /\ meta.notify_type = PyStr(s_alert)
    /\ meta.notify_set = PyStr(s_error)

\* C10 as claimed: after an mset that names a known package P and returns, each
\* policy parameter equals the explicit value when one was passed, else the value
\* P defines for it, else its value before the call.
C10_ExplicitValueKept ==
    [][\A p \in PackageNames :
          (call'.op = "mset" /\ CallsPackage(call', p) /\ err' = NoError)
          => \A k \in PolicyKeys :
                 LET P == Get(meta.defined_pkg, p) IN
                 IF Has(call'.kwargs, k) THEN meta'[k] = Get(call'.kwargs, k)
                 ELSE IF Has(P, k) THEN meta'[k] = Get(P, k)
                 ELSE meta'[k] = meta[k]]_vars

---------------------------------------------------------------------------
(* state_variable.StateVariable *)

\* dir(self) in __init__: of the names it lists, the public methods of the class
dir_self == PyList(<<PyStr(<<"r","e","s","e","t","_","s","t","a","t","e">>),
                     PyStr(<<"s","t","a","t","e">>),
                     PyStr(<<"s","v","_","s","e","t","_","s","t","a","t","e">>)>>)

\* results of the Facade's methods: the Registry and the instance attributes
\* after the call, the exception raised, the alert lines printed
FacadeResult(m, s, e, out) == [m |-> m, sv |-> s, err |-> e, out |-> out]

\* StateVariable._sv_alert_ (the label is left out of the line)
_sv_alert_(msg) == "ALERT:SV: " \o msg

\* the setattr loop: every name of names gets the state_value the Registry holds
RECURSIVE SetAttrs(_, _, _)
SetAttrs(m, s, names) ==
    IF names = <<>> THEN Return(s)
    ELSE IF ~Has(m.state.val, Head(names))
    THEN [val |-> s, err |-> KeyError(Head(names))]
    ELSE SetAttrs(m, Put(s, Head(names),
                         Get(Get(m.state.val, Head(names)).val, "state_value")),
                  Tail(names))

\* __init__ once Metastate(**kwargs) gave r: the setattr loop over self.meta.state
Constructed(r) ==
    IF r.err # NoError THEN FacadeResult(r.m, <<>>, r.err, r.out)
    ELSE FacadeResult(r.m, SetAttrs(r.m, <<>>, Keys(r.m.state.val)).val,
                      SetAttrs(r.m, <<>>, Keys(r.m.state.val)).err, r.out)

\* StateVariable.__init__
StateVariable(kwargs) ==
    Constructed(Metastate(IF Has(kwargs, "attr")
                          THEN Put(kwargs, "attr",
                                   PyList(Get(kwargs, "attr").val \o dir_self.val))
                          ELSE Put(kwargs, "attr", dir_self)))

\* what may follow 'meta_' in a keyword the model passes
MetaSuffixes == KeySet(parameters) \cup {"init"}

\* what may follow 'state_' in a keyword the model passes
StateSuffixes == {"name", "value", "type", "description"}

\* k.startswith('meta_'), k.startswith('state_') and k[5:]
StartsWithMeta(k) == \E p \in MetaSuffixes : k = "meta_" \o p
StartsWithState(k) == \E f \in StateSuffixes : k = "state_" \o f
MetaPar(k) == CHOOSE p \in MetaSuffixes : k = "meta_" \o p

\* the loop of _process_sv_set_state_kwargs_ over kwargs.items()
RECURSIVE ProcessKwargs(_, _, _)
ProcessKwargs(kwargs, items, kwproc) ==
    IF items = <<>> THEN Return(kwproc)
    ELSE LET k == Head(items)[1]
             v == Head(items)[2]
             state == Get(kwproc, "state").val
         IN  IF StartsWithMeta(k)
             THEN ProcessKwargs(kwargs, Tail(items), Put(kwproc, MetaPar(k), v))
             ELSE IF StartsWithState(k)
             THEN IF ~Has(kwargs, "state_name") THEN Raise(KeyError("state_name"))
                  ELSE LET this_state_name == Get(kwargs, "state_name")
                           entry == IF Has(state, this_state_name)
                                    THEN Get(state, this_state_name).val
                                    ELSE <<>>
                       IN  ProcessKwargs(kwargs, Tail(items),
                               Put(kwproc, "state",
                                   PyDict(Put(state, this_state_name,
                                              PyDict(Put(entry, k, v))))))
             ELSE ProcessKwargs(kwargs, Tail(items),
                      Put(kwproc, "state",
                          PyDict(Put(state, k,
                                     PyDict(<< <<"state_name", k>>, <<"state_value", v>> >>)))))

\* StateVariable._process_sv_set_state_kwargs_: the class Metastate has no
\* method get_package
_process_sv_set_state_kwargs_(kwargs) ==
    IF Has(kwargs, "meta_init") /\ Truthy(Get(kwargs, "meta_init"))
    THEN Raise(AttributeError("get_package"))
    ELSE ProcessKwargs(kwargs, kwargs, << <<"state", PyDict(<<>>)>> >>)

\* the loop of to_dict over self.parameters, from the i-th parameter on
RECURSIVE ToDictEntries(_, _, _, _)
ToDictEntries(m, update_meta, i, kwargs_par) ==
    IF i > Len(parameters) THEN Return(kwargs_par)
    ELSE LET k == parameters[i][1]
             current_entry == m[k]
         IN  IF ~Truthy(update_meta)
             THEN ToDictEntries(m, update_meta, i + 1, Put(kwargs_par, k, current_entry))
             ELSE IF Has(update_meta.val, k)
             THEN LET new_entry == _process_meta_key_val_(k, Get(update_meta.val, k))
                      old == IF Has(kwargs_par, "old") THEN Get(kwargs_par, "old").val
                             ELSE <<>>
                      new == IF Has(kwargs_par, "new") THEN Get(kwargs_par, "new").val
                             ELSE <<>>
                  IN  IF new_entry.err # NoError THEN Raise(new_entry.err)
                      ELSE IF /\ ~PyEq(new_entry.val, PyStr(INVALID))
                              /\ ~PyEq(new_entry.val, current_entry)
                      THEN ToDictEntries(m, update_meta, i + 1,
                               Put(Put(kwargs_par, "old", PyDict(Put(old, k, current_entry))),
                                   "new", PyDict(Put(new, k, new_entry.val))))
                      ELSE ToDictEntries(m, update_meta, i + 1, kwargs_par)
             ELSE ToDictEntries(m, update_meta, i + 1, kwargs_par)

\* Metastate.to_dict: the items of the dict returned
to_dict(m, update_meta) ==
    IF update_meta.type = "dict" /\ Len(update_meta.val) = 0 THEN Return(<<>>)
    ELSE ToDictEntries(m, update_meta, 1, <<>>)

\* results of the pre-checks of sv_set_state: the entries kept
Checked(kept, e, out) == [val |-> kept, err |-> e, out |-> out]

\* sv_set_state, "Check if state variables already exist", with the deletion
\* of eliminate_keys: the entries of state2update that stay
RECURSIVE SetPreCheck(_, _, _, _)
SetPreCheck(m, items, kept, out) ==
    IF items = <<>> THEN Checked(kept, NoError, out)
    ELSE LET k == Head(items)[1] IN
         IF Has(m.state.val, k) THEN SetPreCheck(m, Tail(items), Append(kept, Head(items)), out)
         ELSE IF Truthy(m.enforce_set)
         THEN IF PyEq(m.notify_set, PyStr(s_alert))
              THEN SetPreCheck(m, Tail(items), kept,
                       Append(out, _sv_alert_("!!!Not setting " \o k
                                              \o " since not a state variable.")))
              ELSE IF PyEq(m.notify_set, PyStr(s_error))
              THEN Checked(kept, StateVariableError(_sv_alert_(k \o " is not a state variable.")),
                           out)
              ELSE SetPreCheck(m, Tail(items), kept, out)
         ELSE IF PyEq(m.notify_set, PyStr(s_alert)) \/ PyEq(m.notify_set, PyStr(s_error))
         THEN SetPreCheck(m, Tail(items), Append(kept, Head(items)),
                  Append(out, _sv_alert_("Setting " \o k \o " even though it is new.")))
         ELSE SetPreCheck(m, Tail(items), Append(kept, Head(items)), out)

\* checking_type[this_check] in the type pre-check: an entry v of state2update is
\* a dict and never equals the string this_check, so the value comes from the
\* stored descriptor of k, or else from state_key_defaults
CheckingType(m, k, this_check) ==
    IF Has(m.state.val, k) /\ Has(Get(m.state.val, k).val, this_check)
    THEN Get(Get(m.state.val, k).val, this_check)
    ELSE Get(state_key_defaults, this_check)

\* sv_set_state, "Check if state variable types are compliant", with the deletion
\* of eliminate_keys.  The messages read v['state_type'].
RECURSIVE TypePreCheck(_, _, _, _)
TypePreCheck(m, items, kept, out) ==
    IF items = <<>> THEN Checked(kept, NoError, out)
    ELSE LET k == Head(items)[1]
             v == Head(items)[2]
             this_state_type == _type_from_input_(CheckingType(m, k, "state_type"),
                                                  CheckingType(m, k, "state_value"))
             notifies == \/ PyEq(m.notify_type, PyStr(s_alert))
                         \/ PyEq(m.notify_type, PyStr(s_error))
         IN  IF \/ this_state_type.type = "NoneType"
                \/ PyEq(TypeOf(CheckingType(m, k, "state_value")), this_state_type)
             THEN TypePreCheck(m, Tail(items), Append(kept, Head(items)), out)
             ELSE IF notifies /\ ~Has(v.val, "state_type")
             THEN Checked(kept, KeyError("state_type"), out)
             ELSE IF Truthy(m.enforce_type)
             THEN IF PyEq(m.notify_type, PyStr(s_alert))
                  THEN TypePreCheck(m, Tail(items), kept,
                           Append(out, _sv_alert_("!!!Not setting " \o k)))
                  ELSE IF PyEq(m.notify_type, PyStr(s_error))
                  THEN Checked(kept, StateVariableError(_sv_alert_("Incorrect type for " \o k)),
                               out)
                  ELSE TypePreCheck(m, Tail(items), kept, out)
             ELSE IF notifies
             THEN TypePreCheck(m, Tail(items), Append(kept, Head(items)),
                      Append(out, _sv_alert_("Setting " \o k)))
             ELSE TypePreCheck(m, Tail(items), Append(kept, Head(items)), out)

\* the one-time change of the meta parameters: none when reset_par is empty
Override(m, reset_par, which) ==
    IF Len(reset_par) > 0 THEN mset(m, Get(reset_par, which).val)
    ELSE Result(m, PyNone, NoError, <<>>)

\* sv_set_state, "Resetting meta parameters": the end of the call
SetStateReset(s, out, reset) == FacadeResult(reset.m, s, reset.err, out \o reset.out)

\* sv_set_state, "Copy meta state parameters back to self attributes", done
SetStateCopied(m, reset_par, out, attrs) ==
    IF attrs.err # NoError THEN FacadeResult(m, attrs.val, attrs.err, out)
    ELSE SetStateReset(attrs.val, out, Override(m, reset_par, "old"))

\* sv_set_state, "First update the underlying meta state", done
SetStateUpdated(s, reset_par, names, out, updated) ==
    IF updated.err # NoError THEN FacadeResult(updated.m, s, updated.err, out \o updated.out)
    ELSE SetStateCopied(updated.m, reset_par, out \o updated.out,
                        SetAttrs(updated.m, s, names))

\* sv_set_state, "Check if state variable types are compliant", done
SetStateCompliant(m, s, reset_par, compliant) ==
    IF compliant.err # NoError THEN FacadeResult(m, s, compliant.err, compliant.out)
    ELSE SetStateUpdated(s, reset_par, Keys(compliant.val), compliant.out,
                         mset(m, << <<"state", PyDict(compliant.val)>> >>))

\* a variant of SetStateExist that restores the meta parameters before the
\* error of the set pre-check leaves the call
SetStateExist_Restoring(m, s, reset_par, exist) ==
    IF exist.err # NoError
    THEN FacadeResult(Override(m, reset_par, "old").m, s, exist.err, exist.out)
    ELSE SetStateCompliant(m, s, reset_par, TypePreCheck(m, exist.val, <<>>, exist.out))

\* sv_set_state, "Check if state variables already exist", done
SetStateExist(m, s, reset_par, exist) ==
    IF exist.err # NoError THEN FacadeResult(m, s, exist.err, exist.out)
    ELSE SetStateCompliant(m, s, reset_par, TypePreCheck(m, exist.val, <<>>, exist.out))

\* sv_set_state, "Change meta for this time if present", done
SetStateModified(s, kwargs, reset_par, modified) ==
    IF modified.err # NoError
    THEN FacadeResult(modified.m, s, modified.err, modified.out)
    ELSE SetStateExist(modified.m, s, reset_par,
                       SetPreCheck(modified.m,
                                   _dict_from_input_(Get(kwargs, "state"), "state_name").val,
                                   <<>>, modified.out))

\* sv_set_state once to_dict(update_meta=kwargs) gave reset_par
SetStateOverride(m, s, kwargs, reset_par) ==
    IF reset_par.err # NoError THEN FacadeResult(m, s, reset_par.err, <<>>)
    ELSE SetStateModified(s, kwargs, reset_par.val, Override(m, reset_par.val, "new"))

\* sv_set_state once _process_sv_set_state_kwargs_ gave kwargs
SetStateProcessed(m, s, kwargs) ==
    IF kwargs.err # NoError THEN FacadeResult(m, s, kwargs.err, <<>>)
    ELSE IF Len(Get(kwargs.val, "state").val) = 0 THEN FacadeResult(m, s, NoError, <<>>)
    ELSE SetStateOverride(m, s, kwargs.val, to_dict(m, PyDict(kwargs.val)))

\* StateVariable.sv_set_state
sv_set_state(m, s, kwargs) ==
    IF Len(kwargs) = 0 THEN FacadeResult(m, s, NoError, <<>>)
    ELSE SetStateProcessed(m, s, _process_sv_set_state_kwargs_(kwargs))

\* the delattr loop of reset_state
RECURSIVE DelAttrs(_, _)
DelAttrs(s, names) ==
    IF names = <<>> THEN Return(s)
    ELSE IF ~Has(s, Head(names)) THEN [val |-> s, err |-> AttributeError(Head(names))]
    ELSE DelAttrs(Del(s, Head(names)), Tail(names))

\* StateVariable.reset_state; override_yn is the answer given, in the call or
\* at the prompt
reset_state(m, s, override_yn) ==
    LET yn == _bool_from_input_(override_yn) IN
    IF yn.err # NoError THEN FacadeResult(m, s, yn.err, <<>>)
    ELSE IF yn.val.val
    THEN LET deleted == DelAttrs(s, Keys(m.state.val)) IN
         IF deleted.err # NoError THEN FacadeResult(m, deleted.val, deleted.err, <<>>)
         ELSE FacadeResult(reset_state_key(m), deleted.val, NoError, <<>>)
    ELSE FacadeResult(m, s, NoError, <<>>)

---------------------------------------------------------------------------
(* The Facade: a StateVariable instance and the calls made on it *)

f1 == PyFloat("1.0")

\* keyword arguments of the constructor: a policy, with or without frequency
FacadeInitKwargs == {
    <<>>,
    << <<"state", PyDict(<< <<"frequency", f1420>> >>)>> >>,
    << <<"enforce_set", PyBool(FALSE)>>, <<"notify_set", PyStr(s_error)>> >>,
    << <<"state", PyDict(<< <<"frequency", f1420>> >>)>>,
       <<"enforce_type", PyBool(FALSE)>>, <<"notify_type", PyStr(s_error)>> >>,
    << <<"state", PyDict(<< <<"frequency", f1420>> >>)>>,
       <<"enforce_type", PyBool(TRUE)>>, <<"notify_type", PyStr(s_ignore)>> >>,
    << <<"package", PyStr(s_middle)>> >>,
    << <<"package", PyStr(s_maximal)>> >>,
    << <<"state", PyDict(<< <<"frequency",
                              PyDict(<< <<"state_value", PyStr(s_abc)>>,
                                        <<"state_type", PyType("float")>> >>)>> >>)>> >> }

\* keyword arguments of state / sv_set_state: none, one variable, one variable
\* with meta_ overrides, a variable named as the method state, and the state_ form
FacadeKwargs ==
    {<<>>}
    \cup {<< <<"frequency", v>> >> : v \in {f1420, f1, abc}}
    \cup {<< <<"bandwidth", f1>> >>,
          << <<"meta_enforce_set", PyBool(TRUE)>>, <<"bandwidth", f1>> >>,
          << <<"meta_enforce_type", PyBool(FALSE)>>, <<"frequency", abc>> >>,
          << <<"meta_enforce_type", PyBool(TRUE)>>, <<"frequency", f1>> >>,
          << <<"meta_package", PyStr(s_init)>>, <<"bandwidth", f1>> >>,
          << <<"meta_package", PyStr(s_maximal)>>, <<"frequency", f1>> >>,
          << <<"meta_init", PyBool(TRUE)>>, <<"bandwidth", f1>> >>,
          << <<"meta_enforce_set", PyBool(TRUE)>>, <<"meta_notify_set", PyStr(s_error)>>,
             <<"bandwidth", f1>> >>,
          << <<"meta_verbose", PyBool(TRUE)>> >>,
          << <<"state", f1>> >>,
          << <<"state_name", "frequency">>, <<"state_value", f1>>,
             <<"state_type", PyStr(<<"f","l","o","a","t">>)>> >>}

FacadeInit ==
    /\ \E kwargs \in FacadeInitKwargs :
           \E r \in {StateVariable(kwargs)} :
           /\ r.err = NoError
           /\ meta = r.m
           /\ sv = r.sv
           /\ call = [op |-> "__init__", kwargs |-> kwargs, out |-> r.out]
    /\ err = NoError
    /\ tracker = PyNone
    /\ added = <<>>

\* self.state(**kwargs), which is self.sv_set_state(**kwargs)
SvSetState ==
    \E kwargs \in FacadeKwargs :
        \E r \in {sv_set_state(meta, sv, kwargs)} :
        /\ meta' = r.m
        /\ sv' = r.sv
        /\ call' = [op |-> "sv_set_state", kwargs |-> kwargs, out |-> r.out]
        /\ err' = r.err
        /\ UNCHANGED <<tracker, added>>

\* self.reset_state(override_yn)
ResetState ==
    \E override_yn \in {PyBool(TRUE), PyStr(<<"n">>), PyStr(<<"m","a","y","b","e">>)} :
        \E r \in {reset_state(meta, sv, override_yn)} :
        /\ meta' = r.m
        /\ sv' = r.sv
        /\ call' = [op |-> "reset_state", kwargs |-> << <<"override_yn", override_yn>> >>,
                    out |-> r.out]
        /\ err' = r.err
        /\ UNCHANGED <<tracker, added>>

FacadeNext == SvSetState \/ ResetState

FacadeSpec == FacadeInit /\ [][FacadeNext]_vars

---------------------------------------------------------------------------
(* The claims on the Facade, under FacadeSpec *)

\* the set call passes the one keyword n=v
SetsVariable(c, n, v) == c.op = "sv_set_state" /\ c.kwargs = << <<n, v>> >>

FacadeCalls == {<<n, v>> : n \in Names, v \in {f1420, f1, abc}}

\* C1: after construction and after every Facade set call that returns, every
\* variable name of the Registry has a Facade attribute equal to the state_value
\* of its descriptor; after a set call that updates a declared variable to a
\* value v of its type and returns, the descriptor and the attribute hold v.
C1_FacadeProjectsRegistry ==
    /\ []((call.op \in {"__init__", "sv_set_state"} /\ err = NoError)
          => \A n \in KeySet(meta.state.val) :
                 Has(sv, n) /\ Get(sv, n) = StoredValue(meta, n))
    /\ [][\A x \in FacadeCalls :
             (/\ SetsVariable(call', x[1], x[2])
              /\ Declared(meta, x[1])
              /\ TypeOf(x[2]) = StoredType(meta, x[1])
              /\ err' = NoError)
             => (/\ StoredValue(meta', x[1]) = x[2]
                 /\ Get(sv', x[1]) = x[2])]_vars

\* C5: through the Facade, a set call for a variable not yet declared, made with
\* enforce_set false and notify_set 'error', and a set call with a value of the
\* wrong type, made with enforce_type false and notify_type 'error', raise no
\* StateVariableError and the Registry holds the value afterwards.
C5_ErrorUnenforcedIsAlert ==
    [][\A x \in FacadeCalls :
          (/\ SetsVariable(call', x[1], x[2])
           /\ \/ /\ ~Declared(meta, x[1])
                 /\ ~Truthy(meta.enforce_set)
                 /\ NotifyIs(meta.notify_set, {s_error})
              \/ /\ Declared(meta, x[1])
                 /\ StoredType(meta, x[1]) # TypeOf(x[2])
                 /\ StoredType(meta, x[1]) = TypeOf(StoredValue(meta, x[1]))
                 /\ ~Truthy(meta.enforce_type)
                 /\ NotifyIs(meta.notify_type, {s_error}))
          => (/\ err'.type # "StateVariableError"
              /\ Declared(meta', x[1])
              /\ StoredValue(meta', x[1]) = x[2])]_vars

\* the governance parameters of the Registry m
Governance(m) == [k \in PolicyKeys \cup {"label", "note", "package"} |-> m[k]]

\* the set call carries a meta_ override key
HasOverride(c) == \E i \in 1..Len(c.kwargs) : StartsWithMeta(c.kwargs[i][1])

\* mset(**d['new']) and then mset(**d['old']) for the recorded d; an empty d
\* applies nothing
RoundTripWith(m, d) == Override(Override(m, d.val, "new").m, d.val, "old").m

\* d = to_dict(update_meta), mset(**d['new']), mset(**d['old'])
RoundTrip(m, update_meta) == RoundTripWith(m, to_dict(m, update_meta))

\* C11: in every reachable state and for every package reference P, recording
\* d = to_dict({package: P}), applying mset(**d['new']) and then mset(**d['old'])
\* leaves every governance parameter as it was; and a Facade set call with meta_
\* override keys that returns leaves every governance parameter as it was.
C11_RoundTripRestores ==
    /\ [](\A P \in PackageRefs :
              Governance(RoundTrip(meta, PyDict(<< <<"package", P>> >>)))
                  = Governance(meta))
    /\ [][(call'.op = "sv_set_state" /\ HasOverride(call') /\ err' = NoError)
          => Governance(meta') = Governance(meta)]_vars

\* the explicit meta_ overrides of the policy keys that the set call c carries
OverrideKeys(c) ==
    {i \in 1..Len(c.kwargs) : /\ StartsWithMeta(c.kwargs[i][1])
                              /\ MetaPar(c.kwargs[i][1]) \in PolicyKeys}

\* the policy keys that the package the set call c names defines and that c does
\* not override explicitly
PackageKeys(m, c) ==
    IF Has(c.kwargs, "meta_package")
       /\ Has(m.defined_pkg, Get(c.kwargs, "meta_package").val)
    THEN {k \in PolicyKeys :
             /\ Has(Get(m.defined_pkg, Get(c.kwargs, "meta_package").val), k)
             /\ ~Has(c.kwargs, "meta_" \o k)}
    ELSE {}

\* C12: a Facade set call with meta_ override keys that fails validation
\* (StateVariableError) after the override was applied leaves every overridden
\* governance parameter at its override value: the explicit keys at the values
\* given, the keys of a named package at the package's values.
C12_OverrideLeaks ==
    [][(call'.op = "sv_set_state" /\ err'.type = "StateVariableError")
       => /\ \A i \in OverrideKeys(call') :
                 meta'[MetaPar(call'.kwargs[i][1])] = call'.kwargs[i][2]
          /\ \A k \in PackageKeys(meta, call') :
                 meta'[k] = Get(Get(meta.defined_pkg,
                                    Get(call'.kwargs, "meta_package").val), k)]_vars

\* a set call that overrode enforce_set and notify_set failed on the undeclared
\* bandwidth, and the Registry holds the override values with bandwidth undeclared
C12_Witness ==
    /\ call.op = "sv_set_state"
    /\ err.type = "StateVariableError"
    /\ Has(call.kwargs, "meta_enforce_set") /\ Has(call.kwargs, "meta_notify_set")
    /\ meta.enforce_set = PyBool(TRUE)
    /\ meta.notify_set = PyStr(s_error)
    /\ ~Declared(meta, "bandwidth")

\* the set call c carries meta_init=True
Bootstraps(c) ==
    /\ c.op = "sv_set_state"
    /\ Has(c.kwargs, "meta_init")
    /\ Truthy(Get(c.kwargs, "meta_init"))

\* C13: a Facade set call carrying meta_init=True together with new variable
\* names returns with those variables declared, whatever the policy in force,
\* and leaves every governance parameter at its value from before the call.
C13_BootstrapDeclares ==
    [][Bootstraps(call')
       => /\ err' = NoError
          /\ \A n \in Names : Has(call'.kwargs, n) => Declared(meta', n)
          /\ Governance(meta') = Governance(meta)]_vars

\* 'state', the name of a method of the Facade, is in the protected attribute
\* names of the Registry m
ProtectedState(m) ==
    \E i \in 1..Len(m.attr.val) : m.attr.val[i] = PyStr(<<"s","t","a","t","e">>)

\* C14: a Facade set call that declares a variable named 'state', a name in the
\* protected attribute-name set that is not a declared variable, fails under
\* every policy; the name is not added to the Registry and no instance attribute
\* of that name is set.
C14_ProtectedNameRejected ==
    [][(/\ call'.op = "sv_set_state"
        /\ Has(call'.kwargs, "state")
        /\ ProtectedState(meta)
        /\ ~Declared(meta, "state"))
       => /\ err' # NoError
          /\ ~Declared(meta', "state")
          /\ ~Has(sv', "state")]_vars

---------------------------------------------------------------------------
(* The Registry given descriptors: the forms of the state argument of mset *)

s_MHz == <<"M","H","z">>
s_GHz == <<"G","H","z">>

\* the name n where it is a value: the str of its characters
NameStr(n) ==
    PyStr(CASE n = "frequency" -> <<"f","r","e","q","u","e","n","c","y">>
            [] n = "bandwidth" -> <<"b","a","n","d","w","i","d","t","h">>)

\* {n: {state_value: v}}
Nested(n, v) == PyDict(<< <<n, PyDict(<< <<"state_value", v>> >>)>> >>)

\* {state_name: n, state_value: v}: where the dict is the state argument itself
\* its items are iterated, and n is the value of the item 'state_name'
SingleMapping(n, v) == PyDict(<< <<"state_name", NameStr(n)>>, <<"state_value", v>> >>)

\* [{state_name: n, state_value: v}]
OneElementList(n, v) == PyList(<< PyDict(<< <<"state_name", n>>, <<"state_value", v>> >>) >>)

\* {n: {state_description: d}}: a partial descriptor without state_value
DescriptionOnly(n, d) == PyDict(<< <<n, PyDict(<< <<"state_description", PyStr(d)>> >>)>> >>)

\* {n: {state_value: v, state_description: d}}
Described(n, v, d) ==
    PyDict(<< <<n, PyDict(<< <<"state_value", v>>, <<"state_description", PyStr(d)>> >>)>> >>)

\* {n: {state_value: v, state_type: t}}
Typed(n, v, t) ==
    PyDict(<< <<n, PyDict(<< <<"state_value", v>>, <<"state_type", t>> >>)>> >>)

DescValues == {f1420, abc}

\* the state arguments of the calls
DescStates ==
    {PyDict(<< <<n, v>> >>) : n \in Names, v \in DescValues}
    \cup {Nested("frequency", v) : v \in DescValues}
    \cup {SingleMapping("frequency", v) : v \in DescValues}
    \cup {OneElementList("frequency", v) : v \in DescValues}
    \cup {DescriptionOnly("frequency", s_GHz),
          Described("frequency", f1420, s_MHz),
          Typed("frequency", abc, PyStr(s_auto)),
          Typed("bandwidth", f1420, PyType("float"))}

\* keyword arguments of the constructor: a policy and the variables declared
DescInitKwargs ==
    {p \o st : p \in {<<>>,
                      << <<"enforce_type", PyBool(TRUE)>>, <<"notify_type", PyStr(s_alert)>> >>,
                      << <<"enforce_type", PyBool(TRUE)>>, <<"enforce_set", PyBool(TRUE)>> >>},
               st \in {<<>>, << <<"state", Described("frequency", f1420, s_MHz)>> >>}}

DescInit ==
    /\ \E kwargs \in DescInitKwargs :
           \E r \in {Metastate(kwargs)} :
           /\ r.err = NoError
           /\ meta = r.m
           /\ call = [op |-> "__init__", kwargs |-> kwargs, out |-> r.out]
    /\ sv = <<>>
    /\ err = NoError
    /\ tracker = PyNone
    /\ added = <<>>

\* meta.mset(state=state)
MsetDescriptor ==
    \E state \in DescStates :
        \E r \in {mset(meta, << <<"state", state>> >>)} :
        /\ meta' = r.m
        /\ call' = [op |-> "mset", kwargs |-> << <<"state", state>> >>, out |-> r.out]
        /\ err' = r.err
        /\ UNCHANGED <<sv, tracker, added>>

DescNext == MsetDescriptor \/ ResetStateKey

DescSpec == DescInit /\ [][DescNext]_vars

---------------------------------------------------------------------------
(* The claims on descriptors, under DescSpec *)

\* the entries of the state argument of the call c, as mset iterates them
CallEntries(c) == _dict_from_input_(Get(c.kwargs, "state"), "state_name").val

\* the entry e of a state mapping is a partial descriptor: a dict of descriptor
\* fields
PartialDescriptor(e) ==
    /\ e[2].type = "dict"
    /\ KeySet(e[2].val) \subseteq KeySet(state_key_defaults)

\* C15: an mset that returns, for a declared variable given a partial
\* descriptor, leaves every descriptor field that the update does not specify as
\* it was; when the update gives only state_description, the stored value and
\* type are as they were.
C15_MergeKeepsFields ==
    [][(call'.op = "mset" /\ err' = NoError)
       => \A i \in 1..Len(CallEntries(call')) :
              (/\ PartialDescriptor(CallEntries(call')[i])
               /\ Declared(meta, CallEntries(call')[i][1]))
              => /\ \A f \in KeySet(state_key_defaults)
                                 \ KeySet(CallEntries(call')[i][2].val) :
                        Get(Descriptor(meta', CallEntries(call')[i][1]), f)
                            = Get(Descriptor(meta, CallEntries(call')[i][1]), f)
                 /\ KeySet(CallEntries(call')[i][2].val) = {"state_description"}
                    => /\ StoredValue(meta', CallEntries(call')[i][1])
                              = StoredValue(meta, CallEntries(call')[i][1])
                       /\ StoredType(meta', CallEntries(call')[i][1])
                              = StoredType(meta, CallEntries(call')[i][1])]_vars

\* the call c is mset(state=state)
MsetOf(c, state) == c.op = "mset" /\ c.kwargs = << <<"state", state>> >>

\* C16: an mset whose state is the single descriptor mapping {state_name: n,
\* state_value: v}, or the one-element list of that descriptor, leaves the
\* variables of the Registry as the mset of {n: {state_value: v}} would, and
\* declares no name other than n.
C16_ShorthandEquivalent ==
    [][\A v \in DescValues :
          (\/ MsetOf(call', SingleMapping("frequency", v))
           \/ MsetOf(call', OneElementList("frequency", v)))
          => /\ meta'.state = mset(meta, << <<"state", Nested("frequency", v)>> >>).m.state
             /\ KeySet(meta'.state.val) \ KeySet(meta.state.val) \subseteq {"frequency"}]_vars

---------------------------------------------------------------------------
(* The claims on reset *)

\* the call c is reset_state with the answer yn
ResetWith(c, yn) == c.op = "reset_state" /\ Get(c.kwargs, "override_yn") = yn

C18_VariablesOnlyGrow ==
    [][/\ call'.op = "mset" => KeySet(meta.state.val) \subseteq KeySet(meta'.state.val)
       /\ ~(KeySet(meta.state.val) \subseteq KeySet(meta'.state.val))
          => call'.op = "reset_state_key" /\ meta'.state.val = <<>>]_vars

\* an mset that set the policy and declared bandwidth returned with frequency,
\* declared before it, still declared
C18_Witness ==
    /\ call.op = "mset"
    /\ Has(call.kwargs, "enforce_set")
    /\ err = NoError
    /\ Declared(meta, "frequency") /\ Declared(meta, "bandwidth")

\* the descriptor merged for the entry e has the sentinel 'auto' as its type:
\* the entry gives 'auto', or gives no type and the descriptor it updates (that
\* of its key, or the default one) has 'auto'
MergedAuto(m, e) ==
    IF GivesType(e) THEN PyEq(Get(e[2].val, "state_type"), PyStr(s_auto))
    ELSE \/ ~Declared(m, e[1])
         \/ PyEq(StoredType(m, e[1]), PyStr(s_auto))

\* the Registry m holds the value of the entry e under the entry's name
Stored(m, e) ==
    /\ Declared(m, EntryName(e))
    /\ PyEq(StoredValue(m, EntryName(e)), EntryValue(e))

\* C19: after an mset, every entry whose merged type was the sentinel 'auto' and
\* whose descriptor is stored has, as its stored type, the runtime type of its
\* stored value.
C19_AutoResolves ==
    [][call'.op = "mset"
       => \A i \in 1..Len(CallEntries(call')) :
              (/\ MergedAuto(meta, CallEntries(call')[i])
               /\ Stored(meta', CallEntries(call')[i]))
              => StoredType(meta', EntryName(CallEntries(call')[i]))
                     = TypeOf(StoredValue(meta', EntryName(CallEntries(call')[i])))]_vars

\* bandwidth was declared by a bare str value and its stored type is str
C19_Witness ==
    /\ MsetOf(call, PyDict(<< <<"bandwidth", abc>> >>))
    /\ Declared(meta, "bandwidth")
    /\ PyEq(StoredValue(meta, "bandwidth"), abc)
    /\ StoredType(meta, "bandwidth") = PyType("str")

---------------------------------------------------------------------------
(* sv_util._bool_from_input_ applied to strings *)

MaxLen == 2

\* the characters of the strings: the six that decide in both cases, and others
BoolChars == {"f", "F", "n", "0", "t", "Y", "1", "x", "m", " "}

\* every string of at most MaxLen of these characters, the empty one included
BoolStrings == {PyStr(s) : s \in UNION {[1..n -> BoolChars] : n \in 0..MaxLen}}

\* an input is chosen
BoolInit ==
    /\ \E inputv \in BoolStrings :
           call = [op |-> "input", kwargs |-> << <<"inputv", inputv>> >>, out |-> <<>>]
    /\ meta = DefaultMeta
    /\ sv = <<>>
    /\ err = NoError
    /\ tracker = PyNone
    /\ added = <<>>

\* sv_util._bool_from_input_(inputv): the call records the value returned
BoolFromInput ==
    /\ call.op = "input"
    /\ \E r \in {_bool_from_input_(Get(call.kwargs, "inputv"))} :
           /\ call' = [op |-> "_bool_from_input_", kwargs |-> call.kwargs,
                       out |-> <<>>, val |-> r.val]
           /\ err' = r.err
    /\ UNCHANGED <<meta, sv, tracker, added>>

BoolNext == BoolFromInput

BoolSpec == BoolInit /\ [][BoolNext]_vars

\* the first character of the string x, lowered, is one of chars
FirstIn(x, chars) == Len(x.val) > 0 /\ LowerChar(x.val[1]) \in chars

\* C20: _bool_from_input_ returns False for every string whose first character,
\* whatever its case, is f, n or 0, returns True for every string whose first
\* character is t, y or 1, and raises StateVariableError for every other string,
\* the empty string included.
C20_CanonicalBoolOnStrings ==
    [][call'.op = "_bool_from_input_"
       => IF FirstIn(Get(call'.kwargs, "inputv"), {"f", "n", "0"})
          THEN err' = NoError /\ call'.val = PyBool(FALSE)
          ELSE IF FirstIn(Get(call'.kwargs, "inputv"), {"t", "y", "1"})
          THEN err' = NoError /\ call'.val = PyBool(TRUE)
          ELSE err'.type = "StateVariableError"]_vars

---------------------------------------------------------------------------
(* interval_tracker.IntervalTracker *)

\* a datetime at midnight, and the calendar datetime computes with
Date(y, m, d) == [year |-> y, month |-> m, day |-> d]
IsLeap(y) == (y % 4 = 0 /\ y % 100 # 0) \/ y % 400 = 0
DaysInMonth(y, m) ==
    IF m = 2 THEN (IF IsLeap(y) THEN 29 ELSE 28)
    ELSE IF m \in {4, 6, 9, 11} THEN 30 ELSE 31

\* date + timedelta(days=1), date - timedelta(days=1)
NextDay(date) ==
    IF date.day < DaysInMonth(date.year, date.month)
    THEN Date(date.year, date.month, date.day + 1)
    ELSE IF date.month < 12 THEN Date(date.year, date.month + 1, 1)
    ELSE Date(date.year + 1, 1, 1)
PrevDay(date) ==
    IF date.day > 1 THEN Date(date.year, date.month, date.day - 1)
    ELSE IF date.month > 1
    THEN Date(date.year, date.month - 1, DaysInMonth(date.year, date.month - 1))
    ELSE Date(date.year - 1, 12, 31)

\* date + timedelta(days=n)
RECURSIVE PlusDays(_, _)
PlusDays(date, n) == IF n = 0 THEN date ELSE PlusDays(NextDay(date), n - 1)

\* d1 > d2
Later(d1, d2) ==
    \/ d1.year > d2.year
    \/ d1.year = d2.year /\ d1.month > d2.month
    \/ d1.year = d2.year /\ d1.month = d2.month /\ d1.day > d2.day

\* the first day of the month of nm, less one day
FirstLessOne(nm) == PrevDay(Date(nm.year, nm.month, 1))

\* a variant of get_end_of_month that steps 28 days from the first of the month
get_end_of_month_28(date) == FirstLessOne(PlusDays(Date(date.year, date.month, 1), 28))

\* interval_tracker.get_end_of_month
get_end_of_month(date) == FirstLessOne(PlusDays(Date(date.year, date.month, 1), 32))

ValueError(msg) == [type |-> "ValueError", msg |-> msg]
TypeError(msg) == [type |-> "TypeError", msg |-> msg]

\* a float that holds the whole number i
WholeFloat(i) == [type |-> "float", val |-> i]

\* the number a string of decimal digits writes
Digits == <<"0", "1", "2", "3", "4", "5", "6", "7", "8", "9">>
DigitValue(c) == (CHOOSE i \in 1..10 : Digits[i] = c) - 1
RECURSIVE DigitsValue(_, _)
DigitsValue(s, acc) ==
    IF s = <<>> THEN acc ELSE DigitsValue(Tail(s), 10 * acc + DigitValue(Head(s)))

\* float(vval) for an int, for a str of digits or letters, and for None
float(vval) ==
    IF vval.type = "int" THEN Return(WholeFloat(vval.val))
    ELSE IF vval.type = "str" /\ Len(vval.val) > 0
            /\ \A i \in 1..Len(vval.val) : \E j \in 1..10 : Digits[j] = vval.val[i]
    THEN Return(WholeFloat(DigitsValue(vval.val, 0)))
    ELSE IF vval.type = "str"
    THEN Raise(ValueError("could not convert string to float"))
    ELSE Raise(TypeError("float() argument must be a string or a real number"))

intervals_allowed == <<
    <<"year", {"year", "yearly", "yr", "annual"}>>,
    <<"month", {"month", "monthly", "mon", "mn"}>>,
    <<"day", {"day", "daily", "dy"}>>,
    <<"hour", {"hour", "hourly", "hr"}>>,
    <<"minute", {"minute", "min"}>> >>

\* IntervalTracker.__init__ for an allowed interval in lower case and one variable
IntervalTracker(interval, variables) ==
    [interval |-> intervals_allowed[CHOOSE i \in 1..Len(intervals_allowed) :
                                        /\ interval \in intervals_allowed[i][2]
                                        /\ \A j \in 1..(i - 1) :
                                               interval \notin intervals_allowed[j][2]][1],
     variables |-> <<variables>>,
     values |-> << <<variables, <<>> >> >>,
     per_interval |-> << <<variables, <<>> >> >>]

\* the mark of the bucket of vdate (the model's datetimes have no hour or minute)
MarkOf(interval, vdate) ==
    CASE interval = "year" -> Date(vdate.year, 12, 31)
      [] interval = "month" -> get_end_of_month(vdate)
      [] OTHER -> vdate

\* sorted(dates)[-1]
Latest(dates) ==
    dates[CHOOSE i \in 1..Len(dates) : \A j \in 1..Len(dates) : ~Later(dates[j], dates[i])]

\* the result of add: the object after the call and the exception raised
Tracked(t, e) == [t |-> t, err |-> e]

\* the last two lines of the loop of add: vdate is recorded under mark
Recorded(t, variable, mark, vdate) ==
    [t EXCEPT !.per_interval =
        Put(t.per_interval, variable,
            Put(Get(t.per_interval, variable), mark,
                Append(IF Has(Get(t.per_interval, variable), mark)
                       THEN Get(Get(t.per_interval, variable), mark) ELSE <<>>,
                       vdate)))]

\* self.values[variable][mark] = v
Valued(t, variable, mark, v) ==
    [t EXCEPT !.values = Put(t.values, variable, Put(Get(t.values, variable), mark, v))]

\* the try branch of add: the value of the bucket, 0.0 when new, plus fval; the
\* sum of a str and a float raises TypeError, which add does not catch
AddNumeric(t, variable, mark, vdate, fval) ==
    IF ~Has(Get(t.values, variable), mark)
    THEN Tracked(Recorded(Valued(t, variable, mark, fval), variable, mark, vdate), NoError)
    ELSE IF Get(Get(t.values, variable), mark).type # "float"
    THEN Tracked(t, TypeError("can only concatenate str (not float) to str"))
    ELSE Tracked(Recorded(Valued(t, variable, mark,
                                 WholeFloat(Get(Get(t.values, variable), mark).val + fval.val)),
                          variable, mark, vdate), NoError)

\* the except ValueError branch of add
AddOther(t, variable, mark, vdate, vval) ==
    IF ~Has(Get(t.values, variable), mark)
    THEN Tracked(Recorded(Valued(t, variable, mark, vval), variable, mark, vdate), NoError)
    ELSE IF Later(vdate, Latest(Get(Get(t.per_interval, variable), mark)))
    THEN Tracked(Recorded(Valued(t, variable, mark, vval), variable, mark, vdate), NoError)
    ELSE Tracked(Recorded(t, variable, mark, vdate), NoError)

\* the body of the loop of add for one variable: only ValueError is caught
AddVariable(t, variable, vdate, vval) ==
    IF float(vval).err = NoError
    THEN AddNumeric(t, variable, MarkOf(t.interval, vdate), vdate, float(vval).val)
    ELSE IF float(vval).err.type = "ValueError"
    THEN AddOther(t, variable, MarkOf(t.interval, vdate), vdate, vval)
    ELSE Tracked(t, float(vval).err)

\* IntervalTracker.add(date, val) for one datetime and one value, which
\* _add_dict gives to every variable
RECURSIVE AddVariables(_, _, _, _)
AddVariables(r, variables, date, val) ==
    IF variables = <<>> \/ r.err # NoError THEN r
    ELSE AddVariables(AddVariable(r.t, Head(variables), date, val), Tail(variables), date, val)

add(t, date, val) == AddVariables(Tracked(t, NoError), t.variables, date, val)

---------------------------------------------------------------------------
(* A tracker of the one variable 'value' and the calls of add *)

MaxAdds == 3

TrackerIntervals == {"monthly", "day"}

TrackerDates == {Date(2023, 1, 15), Date(2023, 1, 20), Date(2024, 2, 10), Date(2023, 12, 5)}

\* values that float() converts, values on which it raises ValueError, and None
TrackerValues == {PyInt(10), PyStr(<<"5">>), PyStr(<<"a">>), PyStr(<<"b">>), PyNone}

TrackerInit ==
    /\ \E interval \in TrackerIntervals :
           /\ tracker = IntervalTracker(interval, "value")
           /\ call = [op |-> "__init__", kwargs |-> << <<"interval", interval>> >>,
                      out |-> <<>>]
    /\ added = <<>>
    /\ meta = DefaultMeta
    /\ sv = <<>>
    /\ err = NoError

\* tracker.add(date, val)
Add ==
    /\ Len(added) < MaxAdds
    /\ \E date \in TrackerDates, val \in TrackerValues :
           \E r \in {add(tracker, date, val)} :
           /\ tracker' = r.t
           /\ added' = Append(added, <<date, val>>)
           /\ call' = [op |-> "add", kwargs |-> << <<"date", date>>, <<"val", val>> >>,
                       out |-> <<>>]
           /\ err' = r.err
    /\ UNCHANGED <<meta, sv>>

TrackerNext == Add

TrackerSpec == TrackerInit /\ [][TrackerNext]_vars

---------------------------------------------------------------------------
(* The claims on the Interval Tracker, under TrackerSpec *)

\* the buckets of the one series, mark -> value
Buckets == Get(tracker.values, "value")

\* the mark the bucket of a date is to have: the last day of its month under
\* monthly granularity, the day itself under daily granularity
ExpectedMark(date) ==
    IF tracker.interval = "month"
    THEN Date(date.year, date.month, DaysInMonth(date.year, date.month))
    ELSE date

\* every value given to add is numeric / none is
NumericSeries == \A i \in 1..Len(added) : float(added[i][2]).err = NoError
NonNumericSeries == \A i \in 1..Len(added) : float(added[i][2]).err # NoError

\* the sum of the values of hist whose date is in the bucket of mark
RECURSIVE BucketSum(_, _)
BucketSum(hist, mark) ==
    IF hist = <<>> THEN 0
    ELSE (IF ExpectedMark(Head(hist)[1]) = mark THEN float(Head(hist)[2]).val.val ELSE 0)
         + BucketSum(Tail(hist), mark)

\* C21: after any sequence of add calls with numeric values, the buckets are those
\* of the dates added, all dates of one calendar month sharing under monthly
\* granularity the bucket marked by the last day of that month, and the value of
\* each bucket is the sum of the values added with a date in it.
C21_NumericBucketsSum ==
    NumericSeries
    => /\ KeySet(Buckets) = {ExpectedMark(added[i][1]) : i \in 1..Len(added)}
       /\ \A mark \in KeySet(Buckets) :
              Get(Buckets, mark) = WholeFloat(BucketSum(added, mark))

\* three numeric values of January 2023 were added, the later date first, and
\* the one bucket, marked 31 January, holds their sum
C21_Witness ==
    /\ tracker.interval = "month"
    /\ added = << <<Date(2023, 1, 20), PyInt(10)>>, <<Date(2023, 1, 15), PyStr(<<"5">>)>>,
                  <<Date(2023, 1, 20), PyInt(10)>> >>
    /\ Buckets = << <<Date(2023, 1, 31), WholeFloat(25)>> >>

\* the dates given to add are pairwise distinct
DistinctDates == \A i, j \in 1..Len(added) : added[i][1] = added[j][1] => i = j

\* C22: every add of a non-numeric value returns, and after any sequence of add
\* calls with non-numeric values and pairwise distinct dates the value of each
\* bucket is the value that was added with the latest date of that bucket,
\* whatever the order of the calls.
C22_LatestDateWins ==
    /\ []((NonNumericSeries /\ DistinctDates)
          => \A mark \in {ExpectedMark(added[i][1]) : i \in 1..Len(added)} :
                 \E i \in 1..Len(added) :
                     /\ ExpectedMark(added[i][1]) = mark
                     /\ \A j \in 1..Len(added) :
                            ExpectedMark(added[j][1]) = mark
                            => ~Later(added[j][1], added[i][1])
                     /\ Has(Buckets, mark)
                     /\ Get(Buckets, mark) = added[i][2])
    /\ [][(call'.op = "add" /\ float(Get(call'.kwargs, "val")).err # NoError)
          => err' = NoError]_vars

---------------------------------------------------------------------------
(* The Registry given governance keys and several state entries in one mset *)

\* the state mappings of the calls: frequency and bandwidth in either order,
\* each a float or a str, and then gain
SeveralStates ==
    {PyDict(<< <<n[1], v1>>, <<n[2], v2>>, <<"gain", f1420>> >>) :
        n \in {<<"frequency", "bandwidth">>, <<"bandwidth", "frequency">>},
        v1 \in DescValues, v2 \in DescValues}

\* the governance keys of the calls
SeveralPolicies == {
    << <<"notify_set", PyStr(s_error)>> >>,
    << <<"notify_type", PyStr(s_error)>> >>,
    << <<"notify_set", PyStr(s_ignore)>>, <<"notify_type", PyStr(s_ignore)>> >>,
    << <<"enforce_set", PyBool(TRUE)>>, <<"notify_set", PyStr(s_error)>> >>,
    << <<"enforce_type", PyBool(TRUE)>>, <<"notify_type", PyStr(s_alert)>> >> }

SeveralKwargs == {p \o << <<"state", st>> >> : p \in SeveralPolicies, st \in SeveralStates}

SeveralInit ==
    /\ \E kwargs \in {<<>>, << <<"state", PyDict(<< <<"frequency", f1420>> >>)>> >>} :
           \E r \in {Metastate(kwargs)} :
           /\ r.err = NoError
           /\ meta = r.m
           /\ call = [op |-> "__init__", kwargs |-> kwargs, out |-> r.out]
    /\ sv = <<>>
    /\ err = NoError
    /\ tracker = PyNone
    /\ added = <<>>

\* meta.mset(**kwargs) with governance keys and a state mapping of three entries
MsetSeveral ==
    \E kwargs \in SeveralKwargs :
        \E r \in {mset(meta, kwargs)} :
        /\ meta' = r.m
        /\ call' = [op |-> "mset", kwargs |-> kwargs, out |-> r.out]
        /\ err' = r.err
        /\ UNCHANGED <<sv, tracker, added>>

SeveralNext == MsetSeveral \/ ResetStateKey

SeveralSpec == SeveralInit /\ [][SeveralNext]_vars

\* the entry e, met by the Registry before whose variables are those of m
\* under the policy of p, fails validation in notify mode 'error': its name is
\* not declared, or its value is not of the declared type
FailsValidation(m, p, e) ==
    \/ ~Declared(m, e[1]) /\ PyEq(p.notify_set, PyStr(s_error))
    \/ WrongType(m, e) /\ PyEq(p.notify_type, PyStr(s_error))

\* the entry is dropped by enforcement
DroppedEntry(m, p, e) ==
    \/ ~Declared(m, e[1]) /\ Truthy(p.enforce_set)
    \/ WrongType(m, e) /\ Truthy(p.enforce_type)

\* the descriptor of the name n is in m2 what it is in m1
SameVariable(m1, m2, n) ==
    /\ Declared(m1, n) <=> Declared(m2, n)
    /\ Declared(m1, n) => Descriptor(m1, n) = Descriptor(m2, n)

\* C23: when an mset that carries governance keys and several state entries fails
\* with a validation error, the governance keys hold the values given; the first
\* entry that fails validation, and every entry after it, leaves its variable as
\* it was; every entry before it is committed: its value is stored, or its
\* variable is as it was when enforcement dropped it.
C23_PartialApplication ==
    [][(call'.op = "mset" /\ Len(Entries(call')) > 1 /\ err'.type = "StateVariableError")
       => /\ \A k \in PolicyKeys :
                 Has(call'.kwargs, k) => meta'[k] = Get(call'.kwargs, k)
          /\ \E f \in 1..Len(Entries(call')) :
                 /\ FailsValidation(meta, meta', Entries(call')[f])
                 /\ \A i \in 1..(f - 1) :
                        /\ ~FailsValidation(meta, meta', Entries(call')[i])
                        /\ IF DroppedEntry(meta, meta', Entries(call')[i])
                           THEN SameVariable(meta, meta', Entries(call')[i][1])
                           ELSE Stored(meta', Entries(call')[i])
                 /\ \A i \in f..Len(Entries(call')) :
                        SameVariable(meta, meta', Entries(call')[i][1])]_vars

\* an mset that set notify_type to 'error' declared bandwidth, then failed on the
\* str given for the float frequency, and gain, the entry after it, is not declared
C23_Witness ==
    /\ call.op = "mset"
    /\ err.type = "StateVariableError"
    /\ Keys(call.kwargs) = <<"notify_type", "state">>
    /\ Keys(Entries(call)) = <<"bandwidth", "frequency", "gain">>
    /\ meta.notify_type = PyStr(s_error)
    /\ Declared(meta, "bandwidth")
    /\ StoredValue(meta, "bandwidth") = Get(Entries(call), "bandwidth")
    /\ Declared(meta, "frequency")
    /\ ~PyEq(StoredValue(meta, "frequency"), Get(Entries(call), "frequency"))
    /\ ~Declared(meta, "gain")

----------------------------------------------------------------------------
\* The differences reported by to_dict

\* the mappings passed as update_meta: empty, one explicit key, a state mapping,
\* a package name, and two keys together
UpdateMetas ==
    {<<>>}
    \cup {<< x >> : x \in ExplicitKeys}
    \cup {<< <<"state", PyDict(<< <<"frequency", v>> >>)>> >> : v \in Values}
    \cup {<< <<"package", PyStr(s_maximal)>> >>}
    \cup {<< <<"verbose", PyBool(FALSE)>>, <<"label", PyStr(<<"L">>)>> >>,
          << <<"label", PyInt(5)>>, <<"enforce_set", PyBool(FALSE)>> >>}

\* meta.to_dict(update_meta=u)
ToDict ==
    \E u \in UpdateMetas :
        \E r \in {to_dict(meta, PyDict(u))} :
        /\ call' = [op |-> "to_dict", kwargs |-> u, out |-> <<>>, val |-> r.val]
        /\ err' = r.err
        /\ UNCHANGED <<meta, sv, tracker, added>>

ToDictNext == ToDict

ToDictSpec == PkgInit /\ [][ToDictNext]_vars

\* the coerced value is one of the INVALID markers
InvalidMark(v) == v.type = "str" /\ StartsWith(v.val, INVALID)

\* the governance keys of u whose coerced value is valid and differs from the
\* value m holds
ChangedKeys(m, u) ==
    {k \in (KeySet(u) \cap KeySet(parameters)) \ {"state"} :
        /\ _process_meta_key_val_(k, Get(u, k)).err = NoError
        /\ ~InvalidMark(_process_meta_key_val_(k, Get(u, k)).val)
        /\ ~PyEq(_process_meta_key_val_(k, Get(u, k)).val, m[k])}

\* the keys a returned difference lists under 'old' and under 'new'
ListedUnder(items, side) == IF Has(items, side) THEN KeySet(Get(items, side).val) ELSE {}

\* C24: to_dict(update_meta=u) returns exactly the governance keys of u whose
\* coerced value is valid and differs from the current one, as parallel 'old'
\* and 'new' mappings holding the current and the coerced value: nothing for an
\* empty u or for equal values, no key whose coercion gave an INVALID marker,
\* and never the 'state' key.
C24_ListsValidChanges ==
    (call.op = "to_dict" /\ err = NoError) =>
        /\ ListedUnder(call.val, "new") = ChangedKeys(meta, call.kwargs)
        /\ ListedUnder(call.val, "old") = ChangedKeys(meta, call.kwargs)
        /\ ChangedKeys(meta, call.kwargs) = {} => call.val = <<>>
        /\ \A k \in ChangedKeys(meta, call.kwargs) :
               /\ PyEq(Get(Get(call.val, "old").val, k), meta[k])
               /\ PyEq(Get(Get(call.val, "new").val, k),
                       _process_meta_key_val_(k, Get(call.kwargs, k)).val)

----------------------------------------------------------------------------
(* The Registry with a variable declared with a type, and entries whose inner
   state_name is another name than their key *)

s_float == <<"f","l","o","a","t">>

\* {k: {state_name: n, state_value: v}}
Renamed(k, n, v) ==
    PyDict(<< <<k, PyDict(<< <<"state_name", n>>, <<"state_value", v>> >>)>> >>)

\* the declared type of frequency: the alias of the docstring, or the type
AliasTypes == {PyStr(s_float), PyType("float")}

AliasValues == {f1420, abc, PyFloat("1.0")}

\* keyword arguments of the constructor: a policy, and frequency declared as
\* {'state_value': 1420.0, 'state_type': t}
AliasInitKwargs ==
    {p \o << <<"state", Typed("frequency", f1420, t)>> >> :
        p \in {<<>>,
               << <<"enforce_type", PyBool(TRUE)>> >>,
               << <<"enforce_type", PyBool(TRUE)>>, <<"notify_type", PyStr(s_alert)>> >>,
               << <<"enforce_type", PyBool(TRUE)>>, <<"notify_type", PyStr(s_error)>> >>},
        t \in AliasTypes}

AliasInit ==
    /\ \E kwargs \in AliasInitKwargs :
           \E r \in {Metastate(kwargs)} :
           /\ r.err = NoError
           /\ meta = r.m
           /\ call = [op |-> "__init__", kwargs |-> kwargs, out |-> r.out]
    /\ sv = <<>>
    /\ err = NoError
    /\ tracker = PyNone
    /\ added = <<>>

\* the state arguments of the calls: a bare value, or a descriptor under a key
\* that is not its state_name
AliasStates ==
    {PyDict(<< <<n, v>> >>) : n \in Names, v \in AliasValues}
    \cup {Renamed("frequency", "bandwidth", v) : v \in AliasValues}
    \cup {Renamed("bandwidth", "frequency", v) : v \in AliasValues}

\* meta.mset(state=state)
MsetAlias ==
    \E state \in AliasStates :
        \E r \in {mset(meta, << <<"state", state>> >>)} :
        /\ meta' = r.m
        /\ call' = [op |-> "mset", kwargs |-> << <<"state", state>> >>, out |-> r.out]
        /\ err' = r.err
        /\ UNCHANGED <<sv, tracker, added>>

AliasNext == MsetAlias \/ ResetStateKey

AliasSpec == AliasInit /\ [][AliasNext]_vars

\* the declared type t names float, as a type or as its alias
NamesFloat(t) == t \in AliasTypes

\* the call c sets the variable n to the bare value v and nothing else
SetsBare(c, n, v) == c.op = "mset" /\ Entries(c) = << <<n, v>> >>

\* C25: a variable declared with its type given as the alias 'float' is under
\* the type gate like one declared with the type float: with enforce_type
\* true, an mset that sets it to a value of another runtime type is rejected
\* and the stored value is unchanged.
C25_AliasGated ==
    [][\A v \in AliasValues :
          (/\ SetsBare(call', "frequency", v)
           /\ Truthy(meta.enforce_type)
           /\ Declared(meta, "frequency")
           /\ NamesFloat(StoredType(meta, "frequency"))
           /\ ~PyEq(TypeOf(v), PyType("float")))
          => /\ Declared(meta', "frequency")
             /\ PyEq(StoredValue(meta', "frequency"), StoredValue(meta, "frequency"))]_vars

\* the inner state_name of the entry under the key k of the call c, where the
\* entry is a descriptor that carries one
InnerName(c, k) == Get(Get(Entries(c), k).val, "state_name")
CarriesInnerName(c, k) ==
    /\ Has(Entries(c), k)
    /\ Get(Entries(c), k).type = "dict"
    /\ Has(Get(Entries(c), k).val, "state_name")

\* C27: in every reachable Registry state each key k of the variable mapping
\* holds a descriptor whose state_name is k, also after an mset entry whose
\* inner state_name differs from its outer key.
C27_KeysNameDescriptors ==
    \A i \in 1..Len(meta.state.val) :
        Get(meta.state.val[i][2].val, "state_name") = meta.state.val[i][1]

\* an mset entry under the key frequency with the inner name bandwidth returned,
\* and bandwidth holds the value of the entry beside frequency
C27_Witness ==
    /\ call.op = "mset"
    /\ err = NoError
    /\ CarriesInnerName(call, "frequency")
    /\ InnerName(call, "frequency") = "bandwidth"
    /\ Declared(meta, "bandwidth")
    /\ Declared(meta, "frequency")
    /\ PyEq(StoredValue(meta, "bandwidth"),
            Get(Get(Entries(call), "frequency").val, "state_value"))
    /\ ~PyEq(StoredValue(meta, "bandwidth"), StoredValue(meta, "frequency"))

----------------------------------------------------------------------------
(* The Facade's type pre-check, under FacadeSpec *)

\* the set call c passes frequency=v under enforce_type true: the Registry m
\* enforces the type and c overrides nothing, or c carries the override
EnforcedSet(m, c, v) ==
    /\ c.op = "sv_set_state"
    /\ \/ Truthy(m.enforce_type) /\ c.kwargs = << <<"frequency", v>> >>
       \/ c.kwargs = << <<"meta_enforce_type", PyBool(TRUE)>>, <<"frequency", v>> >>

\* C26: through the Facade with enforce_type true, an update of a declared
\* variable whose new value has exactly the declared type is always stored,
\* whatever value the variable holds, a value of the wrong type included: the
\* call returns, and the descriptor and the attribute hold the new value.
C26_RightTypeStored ==
    [][\A v \in {f1420, f1} :
          (/\ EnforcedSet(meta, call', v)
           /\ Declared(meta, "frequency")
           /\ StoredType(meta, "frequency") = PyType("float"))
          => /\ err' = NoError
             /\ StoredValue(meta', "frequency") = v
             /\ Get(sv', "frequency") = v]_vars

----------------------------------------------------------------------------
(* The Registry given mapping packages *)

s_mine == <<"m","i","n","e">>

\* the mappings passed as package: without a name, with the name None, with a
\* name of their own and a key that is no parameter, and with the name of a
\* built-in package
UserPackages == {
    PyDict(<< <<"enforce_set", PyBool(TRUE)>> >>),
    PyDict(<< <<"package", PyNone>>, <<"notify_set", PyStr(s_alert)>> >>),
    PyDict(<< <<"package", PyStr(s_mine)>>, <<"verbose", PyBool(TRUE)>>,
              <<"colour", PyStr(<<"r","e","d">>)>> >>),
    PyDict(<< <<"package", PyStr(s_maximal)>>, <<"enforce_set", PyBool(FALSE)>> >>),
    PyDict(<< <<"package", PyStr(s_init)>>, <<"colour", PyStr(<<"r","e","d">>)>> >>) }

\* keyword arguments of mset: a mapping package, a package name, or a mapping
\* package with an explicit key
UserPkgKwargs ==
    {<< <<"package", d>> >> : d \in UserPackages}
    \cup {<< <<"package", PyStr(p)>> >> : p \in PackageNames \cup {s_user, s_mine}}
    \cup {<< <<"package", d>>, <<"enforce_type", PyBool(TRUE)>> >> : d \in UserPackages}

UserPkgInit ==
    /\ \E kwargs \in {<<>>, << <<"package", PyStr(s_middle)>> >>} :
           \E r \in {Metastate(kwargs)} :
           /\ r.err = NoError
           /\ meta = r.m
           /\ call = [op |-> "__init__", kwargs |-> kwargs, out |-> r.out]
    /\ sv = <<>>
    /\ err = NoError
    /\ tracker = PyNone
    /\ added = <<>>

\* meta.mset(**kwargs) with a package
MsetUserPackage ==
    \E kwargs \in UserPkgKwargs :
        \E r \in {mset(meta, kwargs)} :
        /\ meta' = r.m
        /\ call' = [op |-> "mset", kwargs |-> kwargs, out |-> r.out]
        /\ err' = r.err
        /\ UNCHANGED <<sv, tracker, added>>

UserPkgNext == MsetUserPackage

UserPkgSpec == UserPkgInit /\ [][UserPkgNext]_vars

\* the overrides the Registry m resolves the package name p to
Resolved(m, p) == apply_package(m, PyStr(p)).val

\* C28: the built-in packages are stable: after any sequence of mset calls,
\* calls that pass mapping packages included, resolving each of 'default',
\* 'minimal', 'middle', 'maximal' and 'init' by name yields the same overrides
\* as on a freshly constructed Registry.
C28_BuiltinsStable ==
    \A p \in PackageNames : Resolved(meta, p) = Resolved(Metastate(<<>>).m, p)

----------------------------------------------------------------------------
(* The frame of mset, under Spec *)

\* every governance parameter of the Registry m: all parameters but state
AllGovernance(m) == [k \in KeySet(parameters) \ {"state"} |-> m[k]]

\* C29: an mset that carries only a state key leaves every governance parameter
\* (label, note, verbose, enforce_set, enforce_type, notify_set, notify_type,
\* package, attr, override) unchanged, whether it returns or raises, and an
\* mset with no arguments returns and changes nothing of the Registry.
C29_StateOnlyFrame ==
    [][/\ (call'.op = "mset" /\ KeySet(call'.kwargs) = {"state"})
          => AllGovernance(meta') = AllGovernance(meta)
       /\ (call'.op = "mset" /\ call'.kwargs = <<>>)
          => (meta' = meta /\ err' = NoError)]_vars

\* an mset with the state key alone returned under a policy that is not the
\* default one, and the Registry holds the value the call carried
C29_Witness ==
    /\ call.op = "mset"
    /\ KeySet(call.kwargs) = {"state"}
    /\ err = NoError
    /\ Has(Entries(call), "frequency")
    /\ Declared(meta, "frequency")
    /\ PyEq(StoredValue(meta, "frequency"), Get(Entries(call), "frequency"))
    /\ meta.enforce_type = PyBool(TRUE)
    /\ meta.notify_set = PyStr(s_alert)

====
